---- MODULE Spec2Model ----
(***************************************************************************)
(* Model of ravend, the Raven mail daemon: the local mirror (SQLite store), *)
(* the per-folder IMAP sync pass of ImapWorker, the threader, the Action    *)
(* Executor (flag actions, move-to-trash) and the worker thread loop.       *)
(*                                                                          *)
(* The IMAP server is the environment.  A mailbox is a UIDVALIDITY, a       *)
(* UIDNEXT and a set of messages; the commands the daemon issues (SELECT,   *)
(* FETCH, UID FETCH, UID SEARCH, UID STORE, UID MOVE ...) are operators on  *)
(* that state, and each command may fail (a transient IMAP error).          *)
(***************************************************************************)
EXTENDS Integers, Sequences, FiniteSets, TLC

VARIABLES
    srv,        \* IMAP server: path -> [uid_validity, uid_next, msgs]
    caps,       \* what the server advertises: [uidnext, idle, move]
    db,         \* the Store (tables of the SQLite mirror)
    todo,       \* the worker's position in its cycle: folders still to sync
    cyc,        \* bookkeeping: is a cycle running, has the environment been
                \* quiet since it started, which messages were marked read
    last,       \* outcome of the last operation (return values, counters)
    budget,     \* number of environment events still allowed
    wk,         \* worker thread / supervisor channels (shutdown handling)
    sup,        \* the supervisor: its worker map and the threads it spawned
    mx,         \* the Store mutex and the IMAP exchanges in flight
    disk        \* the files directory, the File rows' size/downloaded
                \* columns and the two threads that write attachments

vars == <<srv, caps, db, todo, cyc, last, budget, wk, sup, mx, disk>>

\* ------------------------------------------------------------------------
\* Bounds of the model
\* ------------------------------------------------------------------------
\* largest UID a mailbox hands out
MaxUid == 2

\* number of environment events of a run: changes made on the server by
\* other clients, and IMAP commands that fail
MaxEvents == 3

\* number of environment events of a run about UIDVALIDITY resets
MaxResets == 2

\* number of message ids handed to one action
MaxIds == 2

\* manual sync requests that can be pending for a worker
MaxTriggers == 1

\* a mailbox may hold up to MAX_MESSAGES_PER_BATCH + MaxOver messages when
\* it is filled in bulk
MaxOver == 1

\* messages ingested in one run of the threading specification
MaxIngest == 3

\* attachments, and bytes of one attachment
MaxFiles == 2

MaxBytes == 2

\* configured accounts, reloads and sync-now requests of one run
MaxAccounts == 3

MaxReloads == 3

MaxSyncNow == 1

\* characters of an attachment's filename
MaxName == 3

\* ------------------------------------------------------------------------
\* Program constants
\* ------------------------------------------------------------------------
MAX_MESSAGES_PER_BATCH == 100

\* seconds between two sync cycles when the server has no IDLE
POLL_INTERVAL_SECS == 300

\* seconds of one IDLE wait (idle_check_interval) and of a whole idle_loop
IDLE_CHECK_SECS == 60

IDLE_TIMEOUT_SECS == 25 * 60

\* one-second naps of the wait after a failed cycle
RETRY_WAIT_SECS == 60

\* Option::None, for strings, for numbers (UIDs, UIDVALIDITY and generated
\* ids are non-zero) and for rows
None == "none"

NoneNum == 0

NoneRow == [absent |-> TRUE]

\* The one account the worker serves (Account.id)
AccountId == "acc"

\* LIST "" "*" as answered by the server, in server order
ListedPaths == <<"Trash", "INBOX">>

Paths == {ListedPaths[i] : i \in DOMAIN ListedPaths}

\* session.list(Some(""), Some("*")) against server state s: the folders
\* that exist on the server
List(s) == SelectSeq(ListedPaths, LAMBDA p : p \in DOMAIN s)

\* ------------------------------------------------------------------------
\* Small helpers
\* ------------------------------------------------------------------------
Max(a, b) == IF a >= b THEN a ELSE b

Min(a, b) == IF a <= b THEN a ELSE b

SetMin(S) == CHOOSE x \in S : \A y \in S : x <= y

\* the element of a one-element set.  Only({F(x) : x \in {e}}) is F(e)
\* with e evaluated once, whatever the number of uses of x in F.
Only(S) == CHOOSE x \in S : TRUE

SeqToSet(s) == {s[i] : i \in DOMAIN s}

\* a table (a function from keys to rows) written out explicitly: the
\* same function, evaluated once instead of on every lookup
Table(t) == t @@ <<>>

\* the elements of a finite set of integers in ascending order
SortedSeq(S) ==
    LET rank == Table([x \in S |-> Cardinality({y \in S : y <= x})])
    IN Table([i \in 1..Cardinality(S) |-> CHOOSE x \in S : rank[x] = i])

\* remove a key from a table
DropKey(t, k) == Table([x \in (DOMAIN t) \ {k} |-> t[x]])

\* insert or overwrite a key of a table
PutKey(t, k, v) == (k :> v) @@ t

\* Uuid::new_v4(): a value that is not in use yet
NewUuid(used) == SetMin((1..(Cardinality(used) + 1)) \ used)

\* ------------------------------------------------------------------------
\* Identifiers
\* ------------------------------------------------------------------------
\* worker.rs:371  format!("{}:{}", account.id, path)
FolderId(account_id, path) == <<account_id, path>>

\* worker.rs:763  format!("{}:{}:{}", account.id, folder.id, uid)
MessageId(account_id, folder_id, uid) == <<account_id, folder_id, uid>>

\* str::eq_ignore_ascii_case("INBOX") on the paths of the model
IsInboxPath(path) == path \in {"INBOX", "Inbox", "inbox"}

\* FolderRole::detect_from_path on the paths of the model
DetectFromPath(path) ==
    IF IsInboxPath(path) THEN "inbox"
    ELSE IF path \in {"Trash", "Deleted Items"} THEN "trash"
    ELSE IF path \in {"Spam", "Junk"} THEN "spam"
    ELSE ""

\* Folder::new
NewFolder(id, account_id, path) ==
    [id |-> id, account_id |-> account_id, path |-> path,
     role |-> DetectFromPath(path),
     uid_validity |-> NoneNum, uid_next |-> NoneNum,
     highest_mod_seq |-> NoneNum]

\* ------------------------------------------------------------------------
\* The IMAP server
\* ------------------------------------------------------------------------
\* messages of a mailbox in sequence-number order (ascending UID)
MailboxSeq(mb) ==
    LET rank == Table([m \in mb.msgs |->
                         Cardinality({y \in mb.msgs : y.uid <= m.uid})])
    IN Table([i \in 1..Cardinality(mb.msgs) |->
                CHOOSE m \in mb.msgs : rank[m] = i])

\* SELECT: the mailbox state the client sees (imap::types::Mailbox)
SelectMailbox(mb) ==
    [exists |-> Cardinality(mb.msgs),
     uid_validity |-> mb.uid_validity,
     uid_next |-> IF caps.uidnext THEN mb.uid_next ELSE NoneNum]

\* FETCH start:* by sequence number; "*" is the last message, and a range
\* is the interval between its two ends in either order (RFC 3501 6.4.8)
FetchRange(mb, start) ==
    LET all == MailboxSeq(mb)
        n == Len(all)
        lo == Min(start, n)
    IN IF n = 0 THEN <<>> ELSE SubSeq(all, lo, n)

\* UID FETCH start:*; "*" is the largest UID in use
UidFetchRange(mb, start) ==
    LET all == MailboxSeq(mb)
        n == Len(all)
        top == IF n = 0 THEN 0 ELSE all[n].uid
        lo == Min(start, top)
    IN SelectSeq(all, LAMBDA m : m.uid >= lo)

\* UID SEARCH ALL
UidSearchAll(mb) == {m.uid : m \in mb.msgs}

\* (mutation) a UID STORE that the server answers OK without storing
UidStoreNothing(mb, uids, flag, add) == mb

\* UID STORE uids +FLAGS (flag) / -FLAGS (flag); UIDs that do not exist
\* are ignored
UidStore(mb, uids, flag, add) ==
    [mb EXCEPT !.msgs = {IF m.uid \in uids THEN [m EXCEPT ![flag] = add] ELSE m :
                         m \in @}]

\* UID MOVE uid to_path (or UID COPY, UID STORE +FLAGS (\Deleted), EXPUNGE
\* when the server has no MOVE): the message leaves its mailbox and gets
\* the next UID of the target mailbox
UidMove(s, from_path, to_path, uid) ==
    IF \E m \in s[from_path].msgs : m.uid = uid
    THEN LET m == CHOOSE x \in s[from_path].msgs : x.uid = uid
         IN [s EXCEPT ![from_path].msgs = @ \ {m},
                      ![to_path].msgs = @ \cup {[m EXCEPT !.uid = s[to_path].uid_next]},
                      ![to_path].uid_next = @ + 1]
    ELSE s

\* ------------------------------------------------------------------------
\* Store: db/operations.rs
\* ------------------------------------------------------------------------
EmptyDb ==
    [folder |-> <<>>, message |-> <<>>, message_body |-> <<>>,
     file |-> <<>>, thread |-> <<>>, thread_folder |-> <<>>,
     thread_reference |-> {}]

\* (mutation) INSERT OR REPLACE
UpsertFolderReplace(d, folder) ==
    [d EXCEPT !.folder = PutKey(@, folder.id, folder)]

\* upsert_folder: on conflict only data, path and role are overwritten
UpsertFolder(d, folder) ==
    IF folder.id \in DOMAIN d.folder
    THEN [d EXCEPT !.folder[folder.id].path = folder.path,
                   !.folder[folder.id].role = folder.role]
    ELSE [d EXCEPT !.folder = PutKey(@, folder.id, folder)]

\* get_folder_by_id
GetFolderById(d, folder_id) ==
    IF folder_id \in DOMAIN d.folder THEN d.folder[folder_id] ELSE NoneRow

\* update_folder_sync_state: UPDATE ... WHERE id = ?1
UpdateFolderSyncState(d, folder_id, uid_validity, uid_next, highest_mod_seq) ==
    IF folder_id \in DOMAIN d.folder
    THEN [d EXCEPT !.folder[folder_id].uid_validity = uid_validity,
                   !.folder[folder_id].uid_next = uid_next,
                   !.folder[folder_id].highest_mod_seq = highest_mod_seq]
    ELSE d

\* upsert_message: on conflict everything but id, accountId, headerMessageId
\* and remoteUID is overwritten
UpsertMessage(d, message) ==
    IF message.id \in DOMAIN d.message
    THEN [d EXCEPT !.message[message.id] =
             [message EXCEPT !.account_id = d.message[message.id].account_id,
                             !.header_message_id = d.message[message.id].header_message_id,
                             !.remote_uid = d.message[message.id].remote_uid]]
    ELSE [d EXCEPT !.message = PutKey(@, message.id, message)]

\* ids of the rows SELECT ... WHERE accountId = ?1 AND folderId = ?2 AND remoteUID = ?3
MessageIdsByUid(d, account_id, folder_id, remote_uid) ==
    {id \in DOMAIN d.message :
        /\ d.message[id].account_id = account_id
        /\ d.message[id].folder_id = folder_id
        /\ d.message[id].remote_uid = remote_uid}

\* get_message_by_uid
GetMessageByUid(d, account_id, folder_id, remote_uid) ==
    LET ids == MessageIdsByUid(d, account_id, folder_id, remote_uid)
    IN IF ids = {} THEN NoneRow ELSE d.message[CHOOSE id \in ids : TRUE]

\* update_message_flags
UpdateMessageFlags(d, account_id, folder_id, remote_uid, unread, starred, draft) ==
    LET ids == MessageIdsByUid(d, account_id, folder_id, remote_uid)
    IN [d EXCEPT !.message =
          Table([id \in DOMAIN @ |->
              IF id \in ids
              THEN [@[id] EXCEPT !.unread = unread, !.starred = starred, !.draft = draft]
              ELSE @[id]])]

\* DELETE FROM file WHERE messageId = ?1
DeleteFilesOfMessage(files, message_id) ==
    Table([k \in {x \in DOMAIN files : files[x].message_id # message_id} |-> files[k]])

\* (mutation) clear_folder_messages that clears nothing
ClearFolderMessagesNothing(d, folder_id) == d

\* (mutation) delete_message_by_uid without "DELETE FROM file"
DeleteMessageByUidKeepFiles(d, account_id, folder_id, remote_uid) ==
    LET ids == MessageIdsByUid(d, account_id, folder_id, remote_uid)
    IN IF ids = {} THEN [db |-> d, deleted |-> FALSE]
       ELSE LET id == CHOOSE x \in ids : TRUE
            IN [db |-> [d EXCEPT !.message_body = DropKey(@, id),
                                 !.message = DropKey(@, id)],
                deleted |-> TRUE]

\* delete_message_by_uid: body, files, then the message row
DeleteMessageByUid(d, account_id, folder_id, remote_uid) ==
    LET ids == MessageIdsByUid(d, account_id, folder_id, remote_uid)
    IN IF ids = {} THEN [db |-> d, deleted |-> FALSE]
       ELSE LET id == CHOOSE x \in ids : TRUE
            IN [db |-> [d EXCEPT !.message_body = DropKey(@, id),
                                 !.file = DeleteFilesOfMessage(@, id),
                                 !.message = DropKey(@, id)],
                deleted |-> TRUE]

\* get_folder_message_uids
GetFolderMessageUids(d, account_id, folder_id) ==
    {d.message[id].remote_uid : id \in
        {x \in DOMAIN d.message : /\ d.message[x].account_id = account_id
                                  /\ d.message[x].folder_id = folder_id}}

\* upsert_message_body
UpsertMessageBody(d, id, value) ==
    [d EXCEPT !.message_body = PutKey(@, id, value)]

\* upsert_thread
UpsertThread(d, thread) ==
    [d EXCEPT !.thread = PutKey(@, thread.id, thread)]

\* get_thread_by_id
GetThreadById(d, thread_id) ==
    IF thread_id \in DOMAIN d.thread THEN d.thread[thread_id] ELSE NoneRow

\* insert_thread_folder: the table has an AUTOINCREMENT key and no unique
\* constraint, so INSERT OR IGNORE always appends a row
InsertThreadFolder(d, account_id, thread_id, folder_id) ==
    [d EXCEPT !.thread_folder =
        Append(@, [account_id |-> account_id, thread_id |-> thread_id,
                   folder_id |-> folder_id])]

\* (mutation) thread_folder_exists answering "yes" for every triple
ThreadFolderExistsAlways(d, account_id, thread_id, folder_id) ==
    TRUE

\* thread_folder_exists
ThreadFolderExists(d, account_id, thread_id, folder_id) ==
    \E i \in DOMAIN d.thread_folder :
        /\ d.thread_folder[i].account_id = account_id
        /\ d.thread_folder[i].thread_id = thread_id
        /\ d.thread_folder[i].folder_id = folder_id

\* insert_thread_reference: PRIMARY KEY (threadId, accountId, headerMessageId)
InsertThreadReference(d, thread_id, account_id, header_message_id) ==
    [d EXCEPT !.thread_reference =
        @ \cup {[thread_id |-> thread_id, account_id |-> account_id,
                 header_message_id |-> header_message_id]}]

\* (mutation) the lookup finds no thread
FindThreadByMessageIdNever(d, account_id, header_message_id) == NoneNum

\* find_thread_by_message_id: the first row of the primary-key index
FindThreadByMessageId(d, account_id, header_message_id) ==
    LET ts == {r.thread_id : r \in
                 {x \in d.thread_reference :
                     /\ x.account_id = account_id
                     /\ x.header_message_id = header_message_id}}
    IN IF ts = {} THEN NoneNum ELSE SetMin(ts)

\* upsert_file (Attachment ids are fresh, so this always inserts)
UpsertFile(d, file) ==
    [d EXCEPT !.file = PutKey(@, file.id, file)]

\* get_message_info_by_id: message JOIN folder
GetMessageInfoById(d, message_id) ==
    IF /\ message_id \in DOMAIN d.message
       /\ d.message[message_id].folder_id \in DOMAIN d.folder
    THEN LET m == d.message[message_id]
         IN [id |-> m.id, account_id |-> m.account_id, folder_id |-> m.folder_id,
             folder_path |-> d.folder[m.folder_id].path,
             remote_uid |-> m.remote_uid, thread_id |-> m.thread_id]
    ELSE NoneRow

\* update_message_read_status_by_id
UpdateMessageReadStatusById(d, message_id, unread) ==
    IF message_id \in DOMAIN d.message
    THEN [d EXCEPT !.message[message_id].unread = unread]
    ELSE d

\* update_message_starred_status_by_id
UpdateMessageStarredStatusById(d, message_id, starred) ==
    IF message_id \in DOMAIN d.message
    THEN [d EXCEPT !.message[message_id].starred = starred]
    ELSE d

\* get_trash_folder_for_account
GetTrashFolderForAccount(d, account_id) ==
    LET ids == {id \in DOMAIN d.folder : /\ d.folder[id].account_id = account_id
                                         /\ d.folder[id].role = "trash"}
    IN IF ids = {} THEN NoneRow ELSE d.folder[CHOOSE id \in ids : TRUE]

\* increment_thread_unread
IncrementThreadUnread(d, thread_id) ==
    IF thread_id \in DOMAIN d.thread
    THEN [d EXCEPT !.thread[thread_id].unread_count = @ + 1]
    ELSE d

\* (mutation) decrement_thread_starred without MAX(0, ...)
DecrementThreadStarredBelowZero(d, thread_id) ==
    IF thread_id \in DOMAIN d.thread
    THEN [d EXCEPT !.thread[thread_id].starred_count = @ - 1]
    ELSE d

\* (mutation) decrement_thread_unread without MAX(0, ...)
DecrementThreadUnreadBelowZero(d, thread_id) ==
    IF thread_id \in DOMAIN d.thread
    THEN [d EXCEPT !.thread[thread_id].unread_count = @ - 1]
    ELSE d

\* decrement_thread_unread: MAX(0, unread - 1)
DecrementThreadUnread(d, thread_id) ==
    IF thread_id \in DOMAIN d.thread
    THEN [d EXCEPT !.thread[thread_id].unread_count = Max(0, @ - 1)]
    ELSE d

\* increment_thread_starred
IncrementThreadStarred(d, thread_id) ==
    IF thread_id \in DOMAIN d.thread
    THEN [d EXCEPT !.thread[thread_id].starred_count = @ + 1]
    ELSE d

\* decrement_thread_starred: MAX(0, starred - 1)
DecrementThreadStarred(d, thread_id) ==
    IF thread_id \in DOMAIN d.thread
    THEN [d EXCEPT !.thread[thread_id].starred_count = Max(0, @ - 1)]
    ELSE d

\* ------------------------------------------------------------------------
\* Threader: worker.rs, find_or_create_thread / update_thread_with_message
\* (subject, snippet and timestamps of a thread are not modelled)
\* ------------------------------------------------------------------------
B2N(b) == IF b THEN 1 ELSE 0

\* (mutation) update_thread_with_message without the count update
UpdateThreadWithMessageNoCounts(acct, d, thread_id, message, folder) ==
    IF GetThreadById(d, thread_id) = NoneRow THEN d
    ELSE IF ~ThreadFolderExists(d, acct, thread_id, folder.id)
    THEN InsertThreadFolder(d, acct, thread_id, folder.id)
    ELSE d

\* update_thread_with_message
UpdateThreadWithMessage(acct, d, thread_id, message, folder) ==
    LET thread == GetThreadById(d, thread_id)
    IN IF thread = NoneRow THEN d
       ELSE LET t2 == [thread EXCEPT
                          !.unread_count = @ + B2N(message.unread),
                          !.starred_count = @ + B2N(message.starred)]
                d1 == UpsertThread(d, t2)
            IN IF ~ThreadFolderExists(d1, acct, thread_id, folder.id)
               THEN InsertThreadFolder(d1, acct, thread_id, folder.id)
               ELSE d1

\* the loop "for reply_to_id in in_reply_to_ids { insert_thread_reference }"
RECURSIVE RegisterReferences(_, _, _, _)
RegisterReferences(acct, d, thread_id, ids) ==
    IF ids = <<>> THEN d
    ELSE RegisterReferences(acct,
             InsertThreadReference(d, thread_id, acct, Head(ids)),
             thread_id, Tail(ids))

\* find_or_create_thread
FindOrCreateThread(acct, d, message, folder, in_reply_to_ids) ==
    LET own == IF message.header_message_id # None
               THEN FindThreadByMessageId(d, acct, message.header_message_id)
               ELSE NoneNum
        hits == {i \in DOMAIN in_reply_to_ids :
                    FindThreadByMessageId(d, acct, in_reply_to_ids[i]) # NoneNum}
    IN IF own # NoneNum
       THEN [db |-> UpdateThreadWithMessage(acct, d, own, message, folder),
             thread_id |-> own]
       ELSE IF hits # {}
       THEN LET tid == FindThreadByMessageId(d, acct, in_reply_to_ids[SetMin(hits)])
                d1 == UpdateThreadWithMessage(acct, d, tid, message, folder)
            IN [db |-> IF message.header_message_id # None
                       THEN InsertThreadReference(d1, tid, acct, message.header_message_id)
                       ELSE d1,
                thread_id |-> tid]
       ELSE LET tid == NewUuid(DOMAIN d.thread)
                thread == [id |-> tid, account_id |-> acct,
                           unread_count |-> B2N(message.unread),
                           starred_count |-> B2N(message.starred)]
                d1 == UpsertThread(d, thread)
                d2 == IF message.header_message_id # None
                      THEN InsertThreadReference(d1, tid, acct, message.header_message_id)
                      ELSE d1
                d3 == RegisterReferences(acct, d2, tid, in_reply_to_ids)
            IN [db |-> InsertThreadFolder(d3, acct, tid, folder.id),
                thread_id |-> tid]

\* ------------------------------------------------------------------------
\* Per-message processing: worker.rs, process_attachments / process_message
\* ------------------------------------------------------------------------
\* the loop body of process_attachments for one parsed attachment, given
\* whether its payload may be saved: the File row, the file written by
\* save_attachment_to_disk and the cid replacement.  acc is [db, written,
\* cid_replacements]; written lists the File ids whose payload went to disk
AttachmentStep(acct, acc, message_id, parsed, should_save) ==
    LET saved == should_save /\ parsed.has_data
        attachment == [id |-> NewUuid(DOMAIN acc.db.file),
                       account_id |-> acct,
                       message_id |-> message_id,
                       is_inline |-> parsed.is_inline,
                       downloaded |-> saved]
    IN [db |-> UpsertFile(acc.db, attachment),
        written |-> acc.written \o (IF saved THEN <<attachment.id>> ELSE <<>>),
        cid_replacements |-> acc.cid_replacements \o
            (IF saved /\ parsed.content_id # None
             THEN <<[content_id |-> parsed.content_id, file |-> attachment.id]>>
             ELSE <<>>)]

\* (mutation) process_attachments saving every payload it has
RECURSIVE ProcessAttachmentsSavesAll(_, _, _, _, _)
ProcessAttachmentsSavesAll(acct, acc, message_id, parsed_attachments, is_spam_folder) ==
    IF parsed_attachments = <<>> THEN acc
    ELSE ProcessAttachmentsSavesAll(acct,
             Only({AttachmentStep(acct, a, message_id, Head(parsed_attachments), TRUE) :
                   a \in {acc}}),
             message_id, Tail(parsed_attachments), is_spam_folder)

\* process_attachments: one File row per parsed attachment; the payload of
\* an inline attachment in a spam folder is not saved.  Called with acc =
\* [db, written |-> <<>>, cid_replacements |-> <<>>]
RECURSIVE ProcessAttachments(_, _, _, _, _)
ProcessAttachments(acct, acc, message_id, parsed_attachments, is_spam_folder) ==
    IF parsed_attachments = <<>> THEN acc
    ELSE LET parsed == Head(parsed_attachments)
             should_save == ~(is_spam_folder /\ parsed.is_inline)
         IN ProcessAttachments(acct,
                Only({AttachmentStep(acct, a, message_id, parsed, should_save) :
                      a \in {acc}}),
                message_id, Tail(parsed_attachments), is_spam_folder)

\* the "Miss" branch of process_message: build, thread and store a Message
IngestNewMessage(acct, d, folder, fetch) ==
    LET envelope == fetch.envelope
        message_id == MessageId(acct, folder.id, fetch.uid)
        message == [id |-> message_id, account_id |-> acct,
                    folder_id |-> folder.id, thread_id |-> NoneNum,
                    header_message_id |-> envelope.message_id,
                    remote_uid |-> fetch.uid,
                    unread |-> ~fetch.seen, starred |-> fetch.flagged,
                    draft |-> fetch.draft]
        th == FindOrCreateThread(acct, d, message, folder, envelope.in_reply_to)
        d1 == UpsertMessage(th.db, [message EXCEPT !.thread_id = th.thread_id])
        d2 == ProcessAttachments(acct,
                  [db |-> d1, written |-> <<>>, cid_replacements |-> <<>>],
                  message_id, envelope.attachments, folder.role = "spam").db
    IN IF envelope.body # ""
       THEN UpsertMessageBody(d2, message_id, envelope.body)
       ELSE d2

\* (mutation) process_message without the lookup of the existing row
ProcessMessageNoLookup(acct, d, folder, fetch) ==
    IF fetch.uid = NoneNum THEN [db |-> d, result |-> "Err"]
    ELSE [db |-> IngestNewMessage(acct, d, folder, fetch), result |-> "New"]

\* process_message
ProcessMessage(acct, d, folder, fetch) ==
    IF fetch.uid = NoneNum THEN [db |-> d, result |-> "Err"]
    ELSE
    LET uid == fetch.uid
        existing == GetMessageByUid(d, acct, folder.id, uid)
        server_unread == ~fetch.seen
        server_starred == fetch.flagged
        server_draft == fetch.draft
    IN IF existing # NoneRow
       THEN IF \/ existing.unread # server_unread
               \/ existing.starred # server_starred
               \/ existing.draft # server_draft
            THEN [db |-> UpdateMessageFlags(d, acct, folder.id, uid,
                                            server_unread, server_starred, server_draft),
                  result |-> "FlagsUpdated"]
            ELSE [db |-> d, result |-> "Unchanged"]
       ELSE [db |-> IngestNewMessage(acct, d, folder, fetch), result |-> "New"]

\* "for msg in messages.iter() { match self.process_message(...) }", with
\* the incremental pass's filter on uid < from_uid (0 in a full pass).  The
\* messages are processed in order; the sequence is halved only to keep
\* the evaluation shallow.
RECURSIVE ProcessAll(_, _, _, _, _)
ProcessAll(acct, d, folder, messages, from_uid) ==
    IF messages = <<>> THEN [db |-> d, new |-> 0, flag_updates |-> 0]
    ELSE IF Len(messages) = 1
    THEN LET msg == messages[1]
             skip == msg.uid # NoneNum /\ msg.uid < from_uid
         IN Only({[db |-> r.db,
                   new |-> B2N(r.result = "New"),
                   flag_updates |-> B2N(r.result = "FlagsUpdated")] :
                  r \in {IF skip THEN [db |-> d, result |-> "Skipped"]
                         ELSE ProcessMessage(acct, d, folder, msg)}})
    ELSE LET h == Len(messages) \div 2
         IN Only({Only({[db |-> r.db, new |-> l.new + r.new,
                         flag_updates |-> l.flag_updates + r.flag_updates] :
                        r \in {ProcessAll(acct, l.db, folder,
                                          SubSeq(messages, h + 1, Len(messages)),
                                          from_uid)}}) :
                  l \in {ProcessAll(acct, d, folder, SubSeq(messages, 1, h),
                                    from_uid)}})

\* ------------------------------------------------------------------------
\* Folder sync state machine: worker.rs
\* ------------------------------------------------------------------------
\* load_folder_sync_state
LoadFolderSyncState(d, folder_id) ==
    LET folder == GetFolderById(d, folder_id)
    IN [uid_validity |-> IF folder = NoneRow THEN NoneNum ELSE folder.uid_validity,
        uid_next |-> IF folder = NoneRow THEN NoneNum ELSE folder.uid_next]

\* save_folder_sync_state (HIGHESTMODSEQ is written as NULL)
SaveFolderSyncState(d, folder_id, state) ==
    UpdateFolderSyncState(d, folder_id, state.uid_validity, state.uid_next, NoneNum)

UidValidityChangedNever(stored, server) == FALSE

\* uid_validity_changed
UidValidityChanged(stored, server) ==
    /\ stored.uid_validity # NoneNum
    /\ server.uid_validity # NoneNum
    /\ stored.uid_validity # server.uid_validity

\* determine_sync_mode
DetermineSyncMode(stored, server) ==
    IF UidValidityChanged(stored, server) THEN "Full"
    ELSE IF stored.uid_next = NoneNum THEN "Full"
    ELSE "Incremental"

\* clear_folder_messages: bodies and message rows of the folder (File rows
\* are not touched)
ClearFolderMessages(d, folder_id) ==
    LET gone == {id \in DOMAIN d.message : d.message[id].folder_id = folder_id}
    IN [d EXCEPT !.message_body = Table([k \in (DOMAIN @) \ gone |-> @[k]]),
                 !.message = Table([k \in (DOMAIN @) \ gone |-> @[k]])]

\* the loop of delete_removed_messages over the local UIDs to remove (in
\* order; the sequence is halved only to keep the evaluation shallow)
RECURSIVE DeleteUids(_, _, _, _)
DeleteUids(acct, d, folder_id, uids) ==
    IF uids = <<>> THEN [db |-> d, deleted |-> 0]
    ELSE IF Len(uids) = 1
    THEN Only({[db |-> r.db, deleted |-> B2N(r.deleted)] :
               r \in {DeleteMessageByUid(d, acct, folder_id, uids[1])}})
    ELSE LET h == Len(uids) \div 2
         IN Only({Only({[db |-> r.db, deleted |-> l.deleted + r.deleted] :
                        r \in {DeleteUids(acct, l.db, folder_id,
                                         SubSeq(uids, h + 1, Len(uids)))}}) :
                  l \in {DeleteUids(acct, d, folder_id, SubSeq(uids, 1, h))}})

\* delete_removed_messages; a failed UID SEARCH deletes nothing
DeleteRemovedMessages(acct, d, mb, folder, search_ok) ==
    IF ~search_ok THEN [db |-> d, deleted |-> 0]
    ELSE LET server_uids == UidSearchAll(mb)
             local_uids == GetFolderMessageUids(d, acct, folder.id)
         IN DeleteUids(acct, d, folder.id, SortedSeq(local_uids \ server_uids))

\* (mutation) the start computed without the guard: below one batch the
\* difference is not a u32 (the subtraction would panic or wrap)
FullFetchStartUnguarded(exists) ==
    exists - MAX_MESSAGES_PER_BATCH + 1

\* the start of the range of a full fetch
FullFetchStart(exists) ==
    IF exists > MAX_MESSAGES_PER_BATCH
    THEN exists - MAX_MESSAGES_PER_BATCH + 1
    ELSE 1

\* sync_folder_full: SELECT again, FETCH start:*, process every response
SyncFolderFull(acct, d, mb, folder, fetch_ok) ==
    IF ~fetch_ok THEN [ok |-> FALSE, db |-> d, new |-> 0, flag_updates |-> 0]
    ELSE LET exists == SelectMailbox(mb).exists
         IN Only({[ok |-> TRUE, db |-> r.db, new |-> r.new,
                   flag_updates |-> r.flag_updates] :
                  r \in {ProcessAll(acct, d, folder,
                                    FetchRange(mb, FullFetchStart(exists)), 0)}})

\* (mutation) sync_folder_incremental handing the UID FETCH error on
SyncFolderIncrementalFetchErr(acct, d, mb, folder, stored_uid_next, fetch_ok) ==
    IF stored_uid_next = NoneNum THEN SyncFolderFull(acct, d, mb, folder, fetch_ok)
    ELSE IF ~fetch_ok THEN [ok |-> FALSE, db |-> d, new |-> 0, flag_updates |-> 0]
    ELSE Only({[ok |-> TRUE, db |-> r.db, new |-> r.new,
                flag_updates |-> r.flag_updates] :
               r \in {ProcessAll(acct, d, folder,
                                 UidFetchRange(mb, stored_uid_next),
                                 stored_uid_next)}})

\* (mutation) sync_folder_incremental without the skip of uid < uid_next
SyncFolderIncrementalNoSkip(acct, d, mb, folder, stored_uid_next, fetch_ok) ==
    IF stored_uid_next = NoneNum THEN SyncFolderFull(acct, d, mb, folder, fetch_ok)
    ELSE IF ~fetch_ok THEN [ok |-> TRUE, db |-> d, new |-> 0, flag_updates |-> 0]
    ELSE Only({[ok |-> TRUE, db |-> r.db, new |-> r.new,
                flag_updates |-> r.flag_updates] :
               r \in {ProcessAll(acct, d, folder,
                                 UidFetchRange(mb, stored_uid_next), 0)}})

\* sync_folder_incremental: UID FETCH uid_next:*; an error counts as "no
\* new messages"; responses below the stored UIDNEXT are skipped
SyncFolderIncremental(acct, d, mb, folder, stored_uid_next, fetch_ok) ==
    IF stored_uid_next = NoneNum THEN SyncFolderFull(acct, d, mb, folder, fetch_ok)
    ELSE IF ~fetch_ok THEN [ok |-> TRUE, db |-> d, new |-> 0, flag_updates |-> 0]
    ELSE Only({[ok |-> TRUE, db |-> r.db, new |-> r.new,
                flag_updates |-> r.flag_updates] :
               r \in {ProcessAll(acct, d, folder,
                                 UidFetchRange(mb, stored_uid_next),
                                 stored_uid_next)}})

\* (mutation) sync_folder_messages notifying of new messages only
SyncFolderMessagesNotifyNew(acct, d, mb, folder, io) ==
    LET stored_state == LoadFolderSyncState(d, folder.id)
        server_state == SelectMailbox(mb)
        sync_mode == DetermineSyncMode(stored_state, server_state)
        changed == UidValidityChanged(stored_state, server_state)
        d1 == IF changed THEN ClearFolderMessages(d, folder.id) ELSE d
        base == [ok |-> FALSE, db |-> d, fetched |-> d, mode |-> sync_mode,
                 cleared |-> FALSE, stored |-> stored_state,
                 new |-> 0, deleted |-> 0, flag_updates |-> 0, notified |-> FALSE]
    IN IF ~io.select THEN [base EXCEPT !.mode = None]
       ELSE IF server_state.exists = 0
       THEN Only({[base EXCEPT !.ok = TRUE,
                       !.db = SaveFolderSyncState(del.db, folder.id, server_state),
                       !.fetched = d1, !.cleared = changed,
                       !.deleted = del.deleted,
                       !.notified = del.deleted > 0] :
                  del \in {DeleteRemovedMessages(acct, d1, mb, folder, io.search)}})
       ELSE Only({
              IF ~res.ok
              THEN [base EXCEPT !.db = d1, !.fetched = d1, !.cleared = changed]
              ELSE Only({[base EXCEPT !.ok = TRUE,
                       !.db = SaveFolderSyncState(del.db, folder.id, server_state),
                       !.fetched = res.db, !.cleared = changed,
                       !.new = res.new, !.deleted = del.deleted,
                       !.flag_updates = res.flag_updates,
                       !.notified = res.new > 0] :
                     del \in {DeleteRemovedMessages(acct, res.db, mb, folder,
                                                    io.search)}}) :
              res \in {IF sync_mode = "Full"
                       THEN SyncFolderFull(acct, d1, mb, folder, io.fetch)
                       ELSE SyncFolderIncremental(acct, d1, mb, folder,
                                                  stored_state.uid_next, io.fetch)}})

\* sync_folder_messages: one pass over one folder.  io says which of the
\* IMAP commands of the pass succeed.  "fetched" is the Store after the
\* fetch step, before deletion reconciliation.
SyncFolderMessages(acct, d, mb, folder, io) ==
    LET stored_state == LoadFolderSyncState(d, folder.id)
        server_state == SelectMailbox(mb)
        sync_mode == DetermineSyncMode(stored_state, server_state)
        changed == UidValidityChanged(stored_state, server_state)
        d1 == IF changed THEN ClearFolderMessages(d, folder.id) ELSE d
        base == [ok |-> FALSE, db |-> d, fetched |-> d, mode |-> sync_mode,
                 cleared |-> FALSE, stored |-> stored_state,
                 new |-> 0, deleted |-> 0, flag_updates |-> 0, notified |-> FALSE]
    IN IF ~io.select THEN [base EXCEPT !.mode = None]
       ELSE IF server_state.exists = 0
       THEN Only({[base EXCEPT !.ok = TRUE,
                       !.db = SaveFolderSyncState(del.db, folder.id, server_state),
                       !.fetched = d1, !.cleared = changed,
                       !.deleted = del.deleted,
                       !.notified = del.deleted > 0] :
                  del \in {DeleteRemovedMessages(acct, d1, mb, folder, io.search)}})
       ELSE Only({
              IF ~res.ok
              THEN [base EXCEPT !.db = d1, !.fetched = d1, !.cleared = changed]
              ELSE Only({[base EXCEPT !.ok = TRUE,
                       !.db = SaveFolderSyncState(del.db, folder.id, server_state),
                       !.fetched = res.db, !.cleared = changed,
                       !.new = res.new, !.deleted = del.deleted,
                       !.flag_updates = res.flag_updates,
                       !.notified = res.new > 0 \/ del.deleted > 0
                                    \/ res.flag_updates > 0] :
                     del \in {DeleteRemovedMessages(acct, res.db, mb, folder,
                                                    io.search)}}) :
              res \in {IF sync_mode = "Full"
                       THEN SyncFolderFull(acct, d1, mb, folder, io.fetch)
                       ELSE SyncFolderIncremental(acct, d1, mb, folder,
                                                  stored_state.uid_next, io.fetch)}})

\* the loop of sync_folders over the LIST response
RECURSIVE UpsertListed(_, _, _)
UpsertListed(acct, d, paths) ==
    IF paths = <<>> THEN d
    ELSE UpsertListed(acct,
            UpsertFolder(d, NewFolder(FolderId(acct, Head(paths)), acct, Head(paths))),
            Tail(paths))

\* sync_folders: the Folder values handed to the passes are Folder::new
\* values (no stored cursor in them)
SyncFolders(acct, paths) ==
    [i \in DOMAIN paths |-> NewFolder(FolderId(acct, paths[i]), acct, paths[i])]

\* (mutation) the folders are synced in LIST order
FolderOrderAsListed(folders) == folders

\* sync_all_folder_messages: INBOX first, then the others in LIST order
FolderOrder(folders) ==
    LET inbox == SelectSeq(folders, LAMBDA f : IsInboxPath(f.path))
        others == SelectSeq(folders, LAMBDA f : ~IsInboxPath(f.path))
    IN (IF inbox = <<>> THEN <<>> ELSE <<inbox[1]>>) \o others

\* the loop of sync_all_folder_messages; ios says, per folder path, which
\* IMAP commands of that folder's pass succeed
RECURSIVE SyncAllFolderMessages(_, _, _, _, _)
SyncAllFolderMessages(acct, d, s, folders, ios) ==
    IF folders = <<>> THEN d
    ELSE LET folder == Head(folders)
         IN Only({SyncAllFolderMessages(acct, r.db, s, Tail(folders), ios) :
                  r \in {SyncFolderMessages(acct, d, s[folder.path], folder,
                                            ios[folder.path])}})

\* the Store after one whole cycle against server state s: sync_folders,
\* then sync_all_folder_messages
SyncCycle(acct, d, s, ios) ==
    SyncAllFolderMessages(acct, UpsertListed(acct, d, List(s)), s,
                          FolderOrder(SyncFolders(acct, List(s))), ios)

\* ------------------------------------------------------------------------
\* Action Executor: imap/actions.rs
\* An ActionResult is [succeeded: sequence of ids, failed: sequence of
\* [message_id, error]].  io says which IMAP commands of the action fail:
\* the connection, SELECT of some folders, STORE / MOVE in some folders.
\* ------------------------------------------------------------------------
NewActionResult == [succeeded |-> <<>>, failed |-> <<>>]

\* result.add_success for each id
AddSuccesses(result, ids) ==
    [result EXCEPT !.succeeded = @ \o ids]

\* result.add_failure for each id
AddFailures(result, ids, error) ==
    [result EXCEPT !.failed =
        @ \o [i \in DOMAIN ids |-> [message_id |-> ids[i], error |-> error]]]

\* FlagAction::imap_flag and FlagAction::is_add
ImapFlag(action) ==
    IF action \in {"MarkRead", "MarkUnread"} THEN "seen" ELSE "flagged"

IsAdd(action) == action \in {"MarkRead", "Flag"}

\* the first loop of both actions: the MessageActionInfo of every id that
\* resolves; an id that does not resolve is dropped (nothing is recorded
\* for it in the ActionResult that is returned)
RECURSIVE LookupInfos(_, _)
LookupInfos(d, message_ids) ==
    IF message_ids = <<>> THEN <<>>
    ELSE LET info == GetMessageInfoById(d, Head(message_ids))
         IN (IF info = NoneRow THEN <<>> ELSE <<info>>)
            \o LookupInfos(d, Tail(message_ids))

\* the keys of by_folder, in order of first occurrence (the code iterates a
\* HashMap; the folder groups do not depend on each other)
RECURSIVE FolderPathsOf(_)
FolderPathsOf(infos) ==
    IF infos = <<>> THEN <<>>
    ELSE LET rest == FolderPathsOf(Tail(infos))
         IN <<Head(infos).folder_path>>
            \o SelectSeq(rest, LAMBDA p : p # Head(infos).folder_path)

IdsOf(infos) == [i \in DOMAIN infos |-> infos[i].id]

\* the Store update of a flag action for one message: the row, then the
\* count of its thread
ApplyFlagToRow(d, msg, action) ==
    CASE action = "MarkRead" ->
            DecrementThreadUnread(
                UpdateMessageReadStatusById(d, msg.id, FALSE), msg.thread_id)
      [] action = "MarkUnread" ->
            IncrementThreadUnread(
                UpdateMessageReadStatusById(d, msg.id, TRUE), msg.thread_id)
      [] action = "Flag" ->
            IncrementThreadStarred(
                UpdateMessageStarredStatusById(d, msg.id, TRUE), msg.thread_id)
      [] action = "Unflag" ->
            DecrementThreadStarred(
                UpdateMessageStarredStatusById(d, msg.id, FALSE), msg.thread_id)

\* (mutation) the rows are left as they are
ApplyFlagToRowsNothing(d, msgs, action) == d

\* "for msg in &folder_messages" after a successful STORE
RECURSIVE ApplyFlagToRows(_, _, _)
ApplyFlagToRows(d, msgs, action) ==
    IF msgs = <<>> THEN d
    ELSE ApplyFlagToRows(Only({ApplyFlagToRow(x, Head(msgs), action) : x \in {d}}),
                         Tail(msgs), action)

\* "for (folder_path, folder_messages) in by_folder" of perform_flag_action
RECURSIVE FlagFolders(_, _, _, _, _, _, _)
FlagFolders(d, s, infos, paths, action, io, result) ==
    IF paths = <<>> THEN [db |-> d, srv |-> s, result |-> result]
    ELSE LET folder_path == Head(paths)
             folder_messages == SelectSeq(infos, LAMBDA m : m.folder_path = folder_path)
             uids == {folder_messages[i].remote_uid : i \in DOMAIN folder_messages}
         IN IF folder_path \in io.select_err
            THEN FlagFolders(d, s, infos, Tail(paths), action, io,
                     AddFailures(result, IdsOf(folder_messages),
                                 "Failed to select folder"))
            ELSE IF folder_path \in io.store_err
            THEN FlagFolders(d, s, infos, Tail(paths), action, io,
                     AddFailures(result, IdsOf(folder_messages), "IMAP STORE failed"))
            ELSE FlagFolders(ApplyFlagToRows(d, folder_messages, action),
                     [s EXCEPT ![folder_path] =
                          UidStore(@, uids, ImapFlag(action), IsAdd(action))],
                     infos, Tail(paths), action, io,
                     AddSuccesses(result, IdsOf(folder_messages)))

\* perform_flag_action
PerformFlagAction(d, s, message_ids, action, io) ==
    LET infos == LookupInfos(d, message_ids)
    IN IF message_ids = <<>> \/ infos = <<>>
       THEN [db |-> d, srv |-> s, result |-> NewActionResult]
       ELSE IF ~io.connect
       THEN [db |-> d, srv |-> s,
             result |-> AddFailures(NewActionResult, IdsOf(infos), "connect")]
       ELSE FlagFolders(d, s, infos, FolderPathsOf(infos), action, io,
                        NewActionResult)

\* UID COPY: the copy gets the next UID of the target mailbox
UidCopy(s, from_path, to_path, uid) ==
    IF \E m \in s[from_path].msgs : m.uid = uid
    THEN LET m == CHOOSE x \in s[from_path].msgs : x.uid = uid
         IN [s EXCEPT ![to_path].msgs = @ \cup {[m EXCEPT !.uid = s[to_path].uid_next]},
                      ![to_path].uid_next = @ + 1]
    ELSE s

\* EXPUNGE of the selected mailbox, in which the messages of "deleted"
\* carry \Deleted
Expunge(s, path, deleted) ==
    [s EXCEPT ![path].msgs = {m \in @ : m.uid \notin deleted}]

\* the commands that move one message, in the order they are sent
MoveCommands(has_move) ==
    IF has_move THEN <<"UID MOVE">> ELSE <<"UID COPY", "UID STORE", "EXPUNGE">>

\* (mutation) move_result with the server's capabilities ignored
MoveOneAlwaysMove(s, msg, trash_folder_path, moving) ==
    IF moving.fail = "UID MOVE"
    THEN [srv |-> s, cmds |-> <<"UID MOVE">>, ok |-> FALSE]
    ELSE [srv |-> UidMove(s, msg.folder_path, trash_folder_path, msg.remote_uid),
          cmds |-> <<"UID MOVE">>, ok |-> TRUE]

\* move_result of move_to_trash for one message: session.uid_mv when the
\* server has MOVE, else uid_copy .and_then uid_store .and_then expunge.
\* moving.fail is the command that returns an error (None: none does); a
\* command after a failed one is not sent.  cmds are the commands sent.
MoveOne(s, msg, trash_folder_path, moving) ==
    IF moving.has_move
    THEN IF moving.fail = "UID MOVE"
         THEN [srv |-> s, cmds |-> <<"UID MOVE">>, ok |-> FALSE]
         ELSE [srv |-> UidMove(s, msg.folder_path, trash_folder_path, msg.remote_uid),
               cmds |-> <<"UID MOVE">>, ok |-> TRUE]
    ELSE IF moving.fail = "UID COPY"
    THEN [srv |-> s, cmds |-> <<"UID COPY">>, ok |-> FALSE]
    ELSE LET copied == UidCopy(s, msg.folder_path, trash_folder_path, msg.remote_uid)
         IN IF moving.fail = "UID STORE"
            THEN [srv |-> copied, cmds |-> <<"UID COPY", "UID STORE">>, ok |-> FALSE]
            ELSE IF moving.fail = "EXPUNGE"
            THEN [srv |-> copied, cmds |-> <<"UID COPY", "UID STORE", "EXPUNGE">>,
                  ok |-> FALSE]
            ELSE [srv |-> Expunge(copied, msg.folder_path, {msg.remote_uid}),
                  cmds |-> <<"UID COPY", "UID STORE", "EXPUNGE">>, ok |-> TRUE]

\* "for msg in folder_messages" of move_to_trash: the move, then delete the
\* row
RECURSIVE MoveMessages(_, _, _, _, _, _)
MoveMessages(d, s, msgs, trash_folder_path, moving, result) ==
    IF msgs = <<>> THEN [db |-> d, srv |-> s, result |-> result, cmds |-> <<>>]
    ELSE LET msg == Head(msgs)
         IN Only({Only({[rest EXCEPT !.cmds = one.cmds \o @] :
                        rest \in {IF one.ok
                                  THEN MoveMessages(
                                           DeleteMessageByUid(d, msg.account_id,
                                               msg.folder_id, msg.remote_uid).db,
                                           one.srv, Tail(msgs), trash_folder_path,
                                           moving, AddSuccesses(result, <<msg.id>>))
                                  ELSE MoveMessages(d, one.srv, Tail(msgs),
                                           trash_folder_path, moving,
                                           AddFailures(result, <<msg.id>>,
                                                       "IMAP move failed"))}}) :
                  one \in {MoveOne(s, msg, trash_folder_path, moving)}})

\* "for (folder_path, folder_messages) in by_folder" of move_to_trash; the
\* move commands in a folder of io.store_err fail at the first of them
RECURSIVE MoveFolders(_, _, _, _, _, _, _, _)
MoveFolders(d, s, infos, paths, trash_folder_path, io, moving, result) ==
    IF paths = <<>> THEN [db |-> d, srv |-> s, result |-> result, cmds |-> <<>>]
    ELSE LET folder_path == Head(paths)
             folder_messages == SelectSeq(infos, LAMBDA m : m.folder_path = folder_path)
         IN IF folder_path \in io.select_err
            THEN MoveFolders(d, s, infos, Tail(paths), trash_folder_path, io, moving,
                     AddFailures(result, IdsOf(folder_messages),
                                 "Failed to select folder"))
            ELSE Only({Only({[rest EXCEPT !.cmds = r.cmds \o @] :
                             rest \in {MoveFolders(r.db, r.srv, infos, Tail(paths),
                                                   trash_folder_path, io, moving,
                                                   r.result)}}) :
                       r \in {MoveMessages(d, s, folder_messages, trash_folder_path,
                                  IF folder_path \in io.store_err
                                  THEN [moving EXCEPT
                                           !.fail = MoveCommands(moving.has_move)[1]]
                                  ELSE moving,
                                  result)}})

\* move_to_trash; moving.has_move is the MOVE capability of the session
MoveToTrash(d, s, message_ids, io, moving) ==
    LET infos == LookupInfos(d, message_ids)
        trash == GetTrashFolderForAccount(d, AccountId)
        none == [db |-> d, srv |-> s, result |-> NewActionResult, cmds |-> <<>>]
    IN IF message_ids = <<>> \/ infos = <<>> THEN none
       ELSE IF trash = NoneRow
       THEN [none EXCEPT !.result = AddFailures(NewActionResult, IdsOf(infos),
                                                "Trash folder not found")]
       ELSE LET in_trash == SelectSeq(infos, LAMBDA m : m.folder_path = trash.path)
                to_move == SelectSeq(infos, LAMBDA m : m.folder_path # trash.path)
                result == AddSuccesses(NewActionResult, IdsOf(in_trash))
            IN IF to_move = <<>> THEN [none EXCEPT !.result = result]
               ELSE IF ~io.connect
               THEN [none EXCEPT !.result = AddFailures(result, IdsOf(to_move),
                                                        "connect")]
               ELSE MoveFolders(d, s, to_move, FolderPathsOf(to_move),
                                trash.path, io, moving, result)

\* ------------------------------------------------------------------------
\* Messages the server can hold (ENVELOPE, body and MIME parts of a message)
\* ------------------------------------------------------------------------
M1 ==
    [message_id |-> "a", in_reply_to |-> <<>>, body |-> "hello",
     attachments |-> <<[is_inline |-> FALSE, has_data |-> TRUE,
                        content_id |-> None]>>]

M2 ==
    [message_id |-> "b", in_reply_to |-> <<"a">>, body |-> "",
     attachments |-> <<>>]

M3 ==
    [message_id |-> None, in_reply_to |-> <<>>, body |-> "x",
     attachments |-> <<>>]

Catalog == {M1, M2}

\* which IMAP commands of one pass succeed
IoOutcomes ==
    {[select |-> TRUE, fetch |-> f, search |-> s] : f \in BOOLEAN, s \in BOOLEAN}
    \cup {[select |-> FALSE, fetch |-> FALSE, search |-> FALSE]}

IoOk(io) == io.select /\ io.fetch /\ io.search

\* ------------------------------------------------------------------------
\* State machine
\* ------------------------------------------------------------------------
\* the worker thread is not spawned yet; no channel exists
InitWorkerThread ==
    [pc |-> "off", shutdown_q |-> 0, trigger_q |-> 0, handle |-> FALSE,
     observed |-> FALSE, waited |-> 0]

\* an empty files directory, no File row, nobody writing
InitDisk ==
    [files |-> <<>>, rows |-> <<>>,
     save |-> [pc |-> "idle", f |-> NoneNum],
     fetch |-> [pc |-> "idle", f |-> NoneNum]]

\* main before the initial reload: an empty worker map, no thread
InitSupervisor ==
    [workers |-> <<>>, threads |-> <<>>, reloads |-> 0, triggers |-> 0,
     pcs |-> <<>>, reload_q |-> 0]

\* the mutex is free, no fetch response is being processed, no flag
\* action is under way
InitMutex == [holder |-> None, fetched |-> NoneRow, act |-> NoneRow, raced |-> FALSE]

InitCommon ==
    /\ srv = [p \in Paths |-> [uid_validity |-> 1, uid_next |-> 1, msgs |-> {}]]
    /\ db = EmptyDb
    /\ todo = <<>>
    /\ cyc = [running |-> FALSE, clean |-> FALSE, marked |-> {},
            trashed |-> {}, due |-> {}]
    /\ last = [op |-> "init"]
    /\ wk = InitWorkerThread
    /\ sup = InitSupervisor
    /\ mx = InitMutex
    /\ disk = InitDisk

Init ==
    /\ InitCommon
    /\ caps \in {[uidnext |-> u, idle |-> TRUE, move |-> TRUE] : u \in BOOLEAN}
    /\ budget = MaxEvents

\* a server-side event: the mailbox changes behind the daemon's back
ServerEvent(p, mb) ==
    /\ budget > 0
    /\ budget' = budget - 1
    /\ srv' = [srv EXCEPT ![p] = mb]
    /\ cyc' = [cyc EXCEPT !.clean = FALSE]
    /\ last' = [op |-> "server"]
    /\ UNCHANGED <<caps, db, todo, wk, sup, disk, mx>>

\* a message is delivered (APPEND, or another client's COPY/MOVE)
Deliver(p, e, seen) ==
    /\ srv[p].uid_next <= MaxUid
    /\ ServerEvent(p, [srv[p] EXCEPT
           !.msgs = @ \cup {[uid |-> srv[p].uid_next, seen |-> seen,
                             flagged |-> FALSE, draft |-> FALSE,
                             envelope |-> e]},
           !.uid_next = @ + 1])

\* another client sets or clears \Seen, \Flagged or \Draft
ServerSetFlag(p, uid, flag) ==
    /\ \E m \in srv[p].msgs :
          /\ m.uid = uid
          /\ ServerEvent(p, [srv[p] EXCEPT
                 !.msgs = (@ \ {m}) \cup {[m EXCEPT ![flag] = ~@]}])

\* another client expunges a message
ServerExpunge(p, uid) ==
    /\ \E m \in srv[p].msgs :
          /\ m.uid = uid
          /\ ServerEvent(p, [srv[p] EXCEPT !.msgs = @ \ {m}])

\* the mailbox is deleted and created again: new UIDVALIDITY, UIDs restart
ServerRecreate(p) ==
    ServerEvent(p, [uid_validity |-> srv[p].uid_validity + 1,
                    uid_next |-> 1, msgs |-> {}])

\* start of a cycle (sync_with_idle up to sync_folders): connect, LIST,
\* upsert the folders.  (A failure to connect or to LIST touches neither
\* the Store nor the server; the worker loop below models the retry.)
CycleBegin(w) ==
    /\ ~cyc.running
    /\ db' = UpsertListed(AccountId, db, List(srv))
    /\ todo' = FolderOrder(SyncFolders(AccountId, List(srv)))
    /\ cyc' = [cyc EXCEPT !.running = TRUE, !.clean = TRUE, !.due = cyc.trashed]
    /\ last' = [op |-> "start"]
    /\ wk' = w
    /\ UNCHANGED <<srv, caps, budget, sup, disk, mx>>

CycleStart ==
    /\ ~cyc.running
    /\ CycleBegin(wk)

\* one step of sync_all_folder_messages: the pass over the next folder;
\* after the last folder the cycle is over and the worker waits.  A pass in
\* which an IMAP command fails uses up one environment event.
PassOver(io, mb) ==
    /\ cyc.running
    /\ IoOk(io) \/ budget > 0
    /\ budget' = IF IoOk(io) THEN budget ELSE budget - 1
    /\ \E folder \in {Head(todo)} :
       \E r \in {SyncFolderMessages(AccountId, db, mb, folder, io)} :
          /\ db' = r.db
          /\ last' = [op |-> "pass", folder |-> folder, io |-> io,
                      ok |-> r.ok, mode |-> r.mode, cleared |-> r.cleared,
                      stored |-> r.stored,
                      new |-> r.new, deleted |-> r.deleted,
                      flag_updates |-> r.flag_updates, notified |-> r.notified,
                      files_deleted |-> Cardinality(DOMAIN db.file)
                                        - Cardinality(DOMAIN r.db.file),
                      cycle_done |-> Tail(todo) = <<>>,
                      cycle_clean |-> cyc.clean /\ IoOk(io)]
    /\ todo' = Tail(todo)
    /\ cyc' = [cyc EXCEPT !.running = Tail(todo) # <<>>,
                          !.clean = cyc.clean /\ IoOk(io)]
    /\ UNCHANGED <<srv, caps, wk, sup, disk>>

\* the pass as one step: nothing else runs between its commands
Pass(io) ==
    /\ todo # <<>>
    /\ PassOver(io, srv[Head(todo).path])
    /\ UNCHANGED mx

Server ==
    \/ \E p \in Paths, e \in Catalog : Deliver(p, e, FALSE)
    \/ \E p \in Paths, uid \in 1..MaxUid, flag \in {"seen", "flagged"} :
          ServerSetFlag(p, uid, flag)
    \/ \E p \in Paths, uid \in 1..MaxUid : ServerExpunge(p, uid)
    \/ \E p \in Paths : ServerRecreate(p)

Worker ==
    \/ CycleStart
    \/ \E io \in IoOutcomes : Pass(io)

Next ==
    \/ Server
    \/ Worker

Spec == Init /\ [][Next]_vars

\* ------------------------------------------------------------------------
\* Properties of the sync pass (checked under Spec)
\* ------------------------------------------------------------------------
\* the part of the Store the sync contract speaks about
Mirror(d) ==
    [folder |-> d.folder, message |-> d.message, message_body |-> d.message_body,
     file |-> d.file, thread |-> d.thread]

\* server messages of the folder of the last pass at or above the cursor
\* the pass started from
FreshOnServer ==
    {m \in srv[last.folder.path].msgs : m.uid >= last.stored.uid_next}

\* C1: Incremental correctness.  After an incremental pass that returned Ok
\* (stored uid_next N, UIDVALIDITY unchanged), exactly the k server messages
\* with UID >= N have been added: the pass counts k new messages and each
\* of them has a Message row.
C1_IncrementalAddsNew ==
    (last.op = "pass" /\ last.ok /\ last.mode = "Incremental") =>
        /\ last.new = Cardinality(FreshOnServer)
        /\ \A m \in FreshOnServer :
              GetMessageByUid(db, AccountId, last.folder.id, m.uid) # NoneRow

\* the Store at the moment deletion reconciliation starts in the pass that
\* the step takes, the UIDs it has to remove and the ids of their rows
ReconcileFrom ==
    SyncFolderMessages(AccountId, db, srv[last'.folder.path],
                       last'.folder, last'.io).fetched

ReconcileGone(from) ==
    IF last'.io.search
    THEN {id \in DOMAIN from.message :
            /\ from.message[id].folder_id = last'.folder.id
            /\ from.message[id].remote_uid \notin
                   UidSearchAll(srv[last'.folder.path])}
    ELSE {}

\* C3: Deletion reconciliation.  In every folder pass that returns Ok, for
\* every UID stored locally for the folder and absent from the UID SEARCH
\* ALL result, the Message row, its MessageBody and its File rows are
\* removed, and every other Message, MessageBody and File row (other UIDs,
\* other folders) is still there, unchanged.
C3_DeletionFrame ==
    [][(last'.op = "pass" /\ last'.ok) =>
        \A from \in {ReconcileFrom} : \A gone \in {ReconcileGone(from)} :
        /\ \A id \in gone :
              /\ id \notin DOMAIN db'.message
              /\ id \notin DOMAIN db'.message_body
              /\ \A k \in DOMAIN db'.file : db'.file[k].message_id # id
        /\ \A id \in (DOMAIN from.message) \ gone :
              /\ id \in DOMAIN db'.message
              /\ db'.message[id] = from.message[id]
        /\ \A id \in (DOMAIN from.message_body) \ gone :
              /\ id \in DOMAIN db'.message_body
              /\ db'.message_body[id] = from.message_body[id]
        /\ \A k \in DOMAIN from.file :
              from.file[k].message_id \notin gone =>
                 /\ k \in DOMAIN db'.file
                 /\ db'.file[k] = from.file[k]
      ]_vars

\* a pass removed a message that had an attachment while another message
\* row stayed in the mirror
C3_Witness ==
    /\ last.op = "pass" /\ last.ok /\ last.deleted > 0
    /\ last.files_deleted > 0
    /\ DOMAIN db.message # {}

\* C4: Idempotent sync.  Once a whole cycle has run against a server state
\* (no server change and no failed command during it), a further cycle
\* against the same server state leaves the mirror as it is - Message
\* rows, bodies, File rows, Thread rows and folder cursors - whichever
\* commands of the further cycle succeed.
C4_IdempotentCycle ==
    (last.op = "pass" /\ last.cycle_done /\ last.cycle_clean) =>
        \A ios \in [Paths -> IoOutcomes] :
            Mirror(SyncCycle(AccountId, db, srv, ios)) = Mirror(db)

\* a cycle has completed against a server that holds messages in both
\* folders, after an earlier cycle had already mirrored something
C4_Witness ==
    /\ last.op = "pass" /\ last.cycle_done /\ last.cycle_clean
    /\ \A p \in Paths : srv[p].msgs # {}
    /\ Cardinality(DOMAIN db.message) >= 2
    /\ budget < MaxEvents

\* ------------------------------------------------------------------------
\* The worker thread and its supervisor: main.rs, spawn_worker /
\* reload_accounts / trigger_sync; worker.rs, sync_with_idle / idle_loop /
\* poll_wait.
\*
\* wk.pc is the position of the thread: "off" (not spawned), "top" (head of
\* the loop of spawn_worker), "cycle" (in sync_with_idle, before the wait),
\* "idle" (idle_loop), "poll" (poll_wait), "retry" (the wait after an Err),
\* "exited".  shutdown_q and trigger_q count the messages in the two mpsc
\* channels, handle says whether the supervisor still holds the
\* WorkerHandle (the senders), observed whether some try_recv on
\* shutdown_rx has returned the signal, waited counts the seconds of the
\* current wait.
\* ------------------------------------------------------------------------
IoAllOk == [select |-> TRUE, fetch |-> TRUE, search |-> TRUE]

\* Receiver::try_recv(): takes one message if there is one
TryRecv(q) == [ok |-> q > 0, q |-> IF q > 0 THEN q - 1 ELSE 0]

WorkerStepAs(op, w) ==
    /\ wk' = w
    /\ last' = [op |-> op]
    /\ UNCHANGED <<srv, caps, db, todo, cyc, budget, sup, disk, mx>>

WorkerStep(w) == WorkerStepAs("worker", w)

\* reload_accounts starts a worker for a new account
SpawnWorker ==
    /\ wk.pc = "off"
    /\ WorkerStep([wk EXCEPT !.pc = "top", !.handle = TRUE])

\* reload_accounts stops the worker of a removed account: the handle is
\* taken out of the map, the signal is sent, the handle is dropped
SignalShutdown ==
    /\ wk.handle
    /\ WorkerStep([wk EXCEPT !.shutdown_q = @ + 1, !.handle = FALSE])

\* trigger_sync
TriggerSync ==
    /\ wk.handle
    /\ wk.trigger_q < MaxTriggers
    /\ WorkerStep([wk EXCEPT !.trigger_q = @ + 1])

\* head of the loop of spawn_worker: break on shutdown, else take a
\* pending trigger and call sync_with_idle
LoopTop ==
    /\ wk.pc = "top"
    /\ IF TryRecv(wk.shutdown_q).ok
       THEN WorkerStep([wk EXCEPT !.shutdown_q = TryRecv(@).q,
                                  !.observed = TRUE, !.pc = "exited"])
       ELSE WorkerStepAs("cycle_start",
                         [wk EXCEPT !.trigger_q = TryRecv(@).q, !.pc = "cycle"])

\* where sync_with_idle goes after sync_all_folder_messages: poll_wait
\* without IDLE; with IDLE the loop of idle_loop, which is not entered
\* ("return Ok(())") when no listed folder is INBOX
WaitAfterSync(s) ==
    IF ~caps.idle THEN "poll"
    ELSE IF \A i \in DOMAIN List(s) : ~IsInboxPath(List(s)[i]) THEN "top"
    ELSE "idle"

\* sync_with_idle up to the wait: connect, sync_folders,
\* sync_all_folder_messages; an error of connect or LIST is an Err
RunCycle(ok) ==
    /\ wk.pc = "cycle"
    /\ wk' = [wk EXCEPT !.waited = 0,
                        !.pc = IF ~ok THEN "retry" ELSE WaitAfterSync(srv)]
    /\ db' = IF ok THEN SyncCycle(AccountId, db, srv, [p \in Paths |-> IoAllOk])
             ELSE db
    /\ last' = [op |-> "cycle", ok |-> ok]
    /\ UNCHANGED <<srv, caps, todo, cyc, budget, sup, disk, mx>>

IdleTurnSleepsOn(outcome) ==
    /\ wk.pc = "idle"
    /\ IF TryRecv(wk.shutdown_q).ok
       THEN WorkerStep([wk EXCEPT !.shutdown_q = TryRecv(@).q,
                                  !.observed = TRUE, !.pc = "top"])
       ELSE WorkerStep([wk EXCEPT
                !.waited = @ + IDLE_CHECK_SECS,
                !.pc = IF wk.waited + IDLE_CHECK_SECS >= IDLE_TIMEOUT_SECS
                       THEN "top" ELSE "idle"])

\* (mutation) idle_loop returns only once the idle time exceeds the limit
IdleTurnOneMore(outcome) ==
    /\ wk.pc = "idle"
    /\ IF TryRecv(wk.shutdown_q).ok
       THEN WorkerStep([wk EXCEPT !.shutdown_q = TryRecv(@).q,
                                  !.observed = TRUE, !.pc = "top"])
       ELSE IF TryRecv(wk.trigger_q).ok
       THEN WorkerStepAs("triggered",
                         [wk EXCEPT !.trigger_q = TryRecv(@).q, !.pc = "top"])
       ELSE CASE outcome = "MailboxChanged" ->
                    WorkerStepAs(outcome, [wk EXCEPT !.pc = "top"])
              [] outcome = "TimedOut" ->
                    WorkerStepAs(outcome, [wk EXCEPT
                        !.waited = @ + IDLE_CHECK_SECS,
                        !.pc = IF wk.waited + IDLE_CHECK_SECS > IDLE_TIMEOUT_SECS
                               THEN "top" ELSE "idle"])
              [] outcome = "WaitErr" ->
                    WorkerStepAs(outcome, [wk EXCEPT !.pc = "top"])
              [] outcome = "IdleErr" ->
                    WorkerStepAs(outcome, [wk EXCEPT !.pc = "retry", !.waited = 0])

\* one turn of the loop of idle_loop: the two try_recv, then one IDLE wait
\* with its outcome (an error of session.idle() is an Err of the cycle)
IdleTurn(outcome) ==
    /\ wk.pc = "idle"
    /\ IF TryRecv(wk.shutdown_q).ok
       THEN WorkerStep([wk EXCEPT !.shutdown_q = TryRecv(@).q,
                                  !.observed = TRUE, !.pc = "top"])
       ELSE IF TryRecv(wk.trigger_q).ok
       THEN WorkerStepAs("triggered",
                         [wk EXCEPT !.trigger_q = TryRecv(@).q, !.pc = "top"])
       ELSE CASE outcome = "MailboxChanged" ->
                    WorkerStepAs(outcome, [wk EXCEPT !.pc = "top"])
              [] outcome = "TimedOut" ->
                    WorkerStepAs(outcome, [wk EXCEPT
                        !.waited = @ + IDLE_CHECK_SECS,
                        !.pc = IF wk.waited + IDLE_CHECK_SECS >= IDLE_TIMEOUT_SECS
                               THEN "top" ELSE "idle"])
              [] outcome = "WaitErr" ->
                    WorkerStepAs(outcome, [wk EXCEPT !.pc = "top"])
              [] outcome = "IdleErr" ->
                    WorkerStepAs(outcome, [wk EXCEPT !.pc = "retry", !.waited = 0])

\* one turn of the loop of poll_wait
PollTurn ==
    /\ wk.pc = "poll"
    /\ IF wk.waited >= POLL_INTERVAL_SECS
       THEN WorkerStep([wk EXCEPT !.pc = "top"])
       ELSE IF TryRecv(wk.shutdown_q).ok
       THEN WorkerStep([wk EXCEPT !.shutdown_q = TryRecv(@).q,
                                  !.observed = TRUE, !.pc = "top"])
       ELSE IF TryRecv(wk.trigger_q).ok
       THEN WorkerStepAs("triggered",
                         [wk EXCEPT !.trigger_q = TryRecv(@).q, !.pc = "top"])
       ELSE WorkerStep([wk EXCEPT !.waited = @ + 1])

\* (mutation) the wait after a failed cycle also ends on a sync trigger
RetryTurnTakesTrigger ==
    /\ wk.pc = "retry"
    /\ IF wk.waited >= RETRY_WAIT_SECS
       THEN WorkerStep([wk EXCEPT !.pc = "top"])
       ELSE IF TryRecv(wk.shutdown_q).ok
       THEN WorkerStep([wk EXCEPT !.shutdown_q = TryRecv(@).q,
                                  !.observed = TRUE, !.pc = "exited"])
       ELSE IF TryRecv(wk.trigger_q).ok
       THEN WorkerStep([wk EXCEPT !.pc = "top"])
       ELSE WorkerStep([wk EXCEPT !.waited = @ + 1])

\* one turn of the wait after a failed cycle (main.rs, "for _ in 0..60")
RetryTurn ==
    /\ wk.pc = "retry"
    /\ IF wk.waited >= RETRY_WAIT_SECS
       THEN WorkerStep([wk EXCEPT !.pc = "top"])
       ELSE IF TryRecv(wk.shutdown_q).ok
       THEN WorkerStep([wk EXCEPT !.shutdown_q = TryRecv(@).q,
                                  !.observed = TRUE, !.pc = "exited"])
       ELSE WorkerStep([wk EXCEPT !.waited = @ + 1])

Supervisor ==
    \/ SpawnWorker
    \/ SignalShutdown
    \/ TriggerSync

WorkerThread ==
    \/ LoopTop
    \/ \E ok \in BOOLEAN : RunCycle(ok)
    \/ \E outcome \in {"MailboxChanged", "TimedOut", "WaitErr", "IdleErr"} :
          IdleTurn(outcome)
    \/ PollTurn
    \/ RetryTurn

InitWorker ==
    /\ InitCommon
    /\ caps \in {[uidnext |-> TRUE, idle |-> i, move |-> TRUE] : i \in BOOLEAN}
    /\ budget = 0

NextWorker ==
    \/ Supervisor
    \/ WorkerThread

SpecWorker == InitWorker /\ [][NextWorker]_vars

\* C5: Worker shutdown.  Once a try_recv of the worker has taken the
\* shutdown signal, the worker starts no further sync cycle (and its
\* thread ends).
C5_NoCycleAfterShutdownObserved ==
    ~(wk.observed /\ wk.pc = "cycle")

\* ------------------------------------------------------------------------
\* User actions (dbus: MarkAsRead, MarkAsUnread, FlagMessages,
\* UnflagMessages, MoveToTrash) next to the sync cycle
\* ------------------------------------------------------------------------
\* an id that resolves to no stored message
UnknownId == MessageId(AccountId, FolderId(AccountId, "INBOX"), NoneNum)

\* the elements of a set in some fixed order
SetToSeq(S) ==
    CHOOSE l \in [1..Cardinality(S) -> S] : \A x \in S : \E i \in DOMAIN l : l[i] = x

\* the id lists a client can send: up to MaxIds distinct ids (none
\* included), of mirrored messages or unknown (one list per set of ids:
\* the order of the ids only orders the result lists)
IdLists ==
    LET ids == (DOMAIN db.message) \cup {UnknownId}
    IN {SetToSeq(S) : S \in {T \in SUBSET ids : Cardinality(T) \in 0..MaxIds}}

\* which IMAP commands of one action fail
ActionOutcomes ==
    {[connect |-> TRUE, select_err |-> {}, store_err |-> {}],
     [connect |-> FALSE, select_err |-> {}, store_err |-> {}]}
    \cup {[connect |-> TRUE, select_err |-> {p}, store_err |-> {}] : p \in Paths}
    \cup {[connect |-> TRUE, select_err |-> {}, store_err |-> {p}] : p \in Paths}

\* the threads whose count the action decrements at 0: the threads, with
\* an unread (MarkRead) or starred (Unflag) count of 0 in d, of the
\* messages that the action reports as succeeded
DecrementsAtZero(d, action, result) ==
    {d.message[id].thread_id : id \in
        {x \in SeqToSet(result.succeeded) \cap DOMAIN d.message :
            /\ d.message[x].thread_id \in DOMAIN d.thread
            /\ \/ /\ action = "MarkRead"
                  /\ d.thread[d.message[x].thread_id].unread_count = 0
               \/ /\ action = "Unflag"
                  /\ d.thread[d.message[x].thread_id].starred_count = 0}}

\* (mutation) the dbus method emits the signal after every call
ActionStepAlwaysNotifies(op, message_ids, action, io, r, marked) ==
    /\ budget > 0
    /\ budget' = budget - 1
    /\ db' = r.db
    /\ srv' = r.srv
    /\ cyc' = [cyc EXCEPT !.clean = FALSE, !.marked = marked]
    /\ last' = [op |-> op, ids |-> message_ids, action |-> action, io |-> io,
                result |-> r.result,
                notified |-> TRUE,
                at_zero |-> DecrementsAtZero(db, action, r.result)]
    /\ UNCHANGED <<caps, todo, wk, sup, disk, mx>>

\* the dbus method of a user action: the executor's result, then
\* notify_message_change "if !result.succeeded.is_empty()".  The action is
\* one event of the run; it ends the quiet of the cycle
ActionStep(op, message_ids, action, io, r, marked) ==
    /\ budget > 0
    /\ budget' = budget - 1
    /\ db' = r.db
    /\ srv' = r.srv
    /\ cyc' = [cyc EXCEPT !.clean = FALSE, !.marked = marked]
    /\ last' = [op |-> op, ids |-> message_ids, action |-> action, io |-> io,
                result |-> r.result,
                notified |-> r.result.succeeded # <<>>,
                at_zero |-> DecrementsAtZero(db, action, r.result)]
    /\ UNCHANGED <<caps, todo, wk, sup, disk, mx>>

\* MarkAsRead / MarkAsUnread / FlagMessages / UnflagMessages
FlagAct(message_ids, action, io) ==
    \E r \in {PerformFlagAction(db, srv, message_ids, action, io)} :
        ActionStep("flag", message_ids, action, io, r,
            CASE action = "MarkRead" -> cyc.marked \cup SeqToSet(r.result.succeeded)
              [] action = "MarkUnread" -> cyc.marked \ SeqToSet(message_ids)
              [] OTHER -> cyc.marked)

\* MoveToTrash
TrashAct(message_ids, io) ==
    \E r \in {MoveToTrash(db, srv, message_ids, io,
                             [has_move |-> caps.move, fail |-> None])} :
        ActionStep("trash", message_ids, "MoveToTrash", io, r,
                   cyc.marked \ SeqToSet(message_ids))

User ==
    \/ \E l \in IdLists, io \in ActionOutcomes,
          action \in {"MarkRead", "MarkUnread", "Flag", "Unflag"} :
          FlagAct(l, action, io)
    \/ \E l \in IdLists, io \in ActionOutcomes : TrashAct(l, io)

NextAct ==
    \/ \E p \in Paths, seen \in BOOLEAN : Deliver(p, M1, seen)
    \/ CycleStart
    \/ Pass(IoAllOk)
    \/ User

SpecAct == Init /\ [][NextAct]_vars

\* the ids an ActionResult reports
Reported(result) ==
    SeqToSet(result.succeeded)
    \cup {result.failed[i].message_id : i \in DOMAIN result.failed}

\* C6: Per-item outcome.  After a flag action or a move-to-trash, every
\* input id is in succeeded or in failed.
C6_EveryIdReported ==
    (last.op \in {"flag", "trash"}) =>
        \A i \in DOMAIN last.ids : last.ids[i] \in Reported(last.result)

\* the found messages of the flag action that the step takes, and those of
\* them whose folder group had its STORE succeed
FlagFound == LookupInfos(db, last'.ids)

FlagStored ==
    IF last'.io.connect
    THEN SelectSeq(FlagFound,
             LAMBDA m : m.folder_path \notin (last'.io.select_err \cup last'.io.store_err))
    ELSE <<>>

\* the Message row a stored flag action leaves
FlaggedRow(row, action) ==
    CASE action = "MarkRead" -> [row EXCEPT !.unread = FALSE]
      [] action = "MarkUnread" -> [row EXCEPT !.unread = TRUE]
      [] action = "Flag" -> [row EXCEPT !.starred = TRUE]
      [] action = "Unflag" -> [row EXCEPT !.starred = FALSE]

\* the Thread row after k messages of it had the action stored; the
\* decrement stops at floor (0 in the code, none in the claim as stated)
CountedThread(thread, action, k, clamp) ==
    CASE action = "MarkRead" ->
            [thread EXCEPT !.unread_count =
                IF clamp THEN Max(0, @ - k) ELSE @ - k]
      [] action = "MarkUnread" -> [thread EXCEPT !.unread_count = @ + k]
      [] action = "Flag" -> [thread EXCEPT !.starred_count = @ + k]
      [] action = "Unflag" ->
            [thread EXCEPT !.starred_count =
                IF clamp THEN Max(0, @ - k) ELSE @ - k]

FlagEffect(clamp) ==
    LET stored == {FlagStored[i] : i \in DOMAIN FlagStored}
        found == {FlagFound[i] : i \in DOMAIN FlagFound}
    IN /\ \A m \in stored :
             /\ db'.message[m.id] = FlaggedRow(db.message[m.id], last'.action)
             /\ m.id \in SeqToSet(last'.result.succeeded)
       /\ \A m \in found \ stored :
             /\ db'.message[m.id] = db.message[m.id]
             /\ \E i \in DOMAIN last'.result.failed :
                   last'.result.failed[i].message_id = m.id
       /\ \A t \in DOMAIN db.thread :
             db'.thread[t] =
                CountedThread(db.thread[t], last'.action,
                              Cardinality({m \in stored : m.thread_id = t}), clamp)

\* C7 as stated: a folder group whose UID STORE succeeds has every message
\* row set and the thread count moved by +1 / -1 per message; a group whose
\* STORE (or SELECT, or the connection) fails has no Message or Thread row
\* changed and every id reported failed.
C7_FlagEffectExactDelta ==
    [][(last'.op = "flag") => FlagEffect(FALSE)]_vars

\* C7 (amended): as above, with the -1 of MarkRead and Unflag stopping at 0:
\* the count becomes MAX(0, count - 1) per message.
C7_FlagEffectClamped ==
    [][(last'.op = "flag") => FlagEffect(TRUE)]_vars

\* a flag action over two folder groups, one stored and one whose STORE
\* failed
C7_Witness ==
    /\ last.op = "flag"
    /\ last.io.store_err # {}
    /\ last.result.succeeded # <<>>
    /\ last.result.failed # <<>>

\* C10: Flag round-trip.  A message that a successful MarkAsRead marked
\* read (and that no later action marked unread or moved) is not unread in
\* the mirror, in particular not after the sync cycles that follow.
C10_MarkedStaysRead ==
    \A id \in cyc.marked :
        id \in DOMAIN db.message => ~db.message[id].unread

\* a whole cycle that re-fetched the flags (Full mode) has run after the
\* MarkAsRead of a message that was unread before
C10_Witness ==
    /\ last.op = "pass" /\ last.cycle_done /\ last.cycle_clean
    /\ last.mode = "Full"
    /\ \E id \in cyc.marked : id \in DOMAIN db.message

\* ------------------------------------------------------------------------
\* UIDVALIDITY reset with mailboxes larger than one batch
\* ------------------------------------------------------------------------
\* the sizes of a bulk delivery: one message, or about one batch
BulkSizes ==
    {1} \cup {MAX_MESSAGES_PER_BATCH + k : k \in 0..MaxOver}

\* n copies of a message with UIDs from first on
BulkMessages(first, n, e) ==
    {[uid |-> first + i - 1, seen |-> FALSE, flagged |-> FALSE,
      draft |-> FALSE, envelope |-> e] : i \in 1..n}

\* n copies of a message arrive at once in an empty INBOX (another
\* client's COPY of a whole folder, a server-side import)
BulkDeliver(n, e) ==
    /\ srv["INBOX"].msgs = {}
    /\ ServerEvent("INBOX", [srv["INBOX"] EXCEPT
           !.msgs = BulkMessages(srv["INBOX"].uid_next, n, e),
           !.uid_next = @ + n])

\* the INBOX is created again with n messages in it (a restore, a
\* migration): new UIDVALIDITY, UIDs restart at 1
ServerRestore(n, e) ==
    ServerEvent("INBOX", [uid_validity |-> srv["INBOX"].uid_validity + 1,
                          uid_next |-> n + 1,
                          msgs |-> BulkMessages(1, n, e)])

InitReset ==
    /\ InitCommon
    /\ caps \in {[uidnext |-> u, idle |-> TRUE, move |-> TRUE] : u \in BOOLEAN}
    /\ budget = MaxResets

NextReset ==
    \/ \E n \in BulkSizes : BulkDeliver(n, M3)
    \/ \E n \in {0} \cup BulkSizes : ServerRestore(n, M2)
    \/ CycleStart
    \/ \E io \in IoOutcomes : Pass(io)

SpecReset == InitReset /\ [][NextReset]_vars

\* the Message rows of the folder of the last pass
RowsOfLastFolder ==
    {db.message[id] : id \in
        {x \in DOMAIN db.message : db.message[x].folder_id = last.folder.id}}

\* what a Message row keeps of a server message
RowOf(m) ==
    [remote_uid |-> m.uid, header_message_id |-> m.envelope.message_id,
     unread |-> ~m.seen, starred |-> m.flagged, draft |-> m.draft]

RowView(r) ==
    [remote_uid |-> r.remote_uid, header_message_id |-> r.header_message_id,
     unread |-> r.unread, starred |-> r.starred, draft |-> r.draft]

\* the cursor of the folder of the last pass is what SELECT reported
CursorIsServers ==
    LET f == db.folder[last.folder.id]
        server == SelectMailbox(srv[last.folder.path])
    IN f.uid_validity = server.uid_validity /\ f.uid_next = server.uid_next

MessagesOfThread == {M1, M2, M3}

\* the Store once sync_folders has upserted the listed folders
InitThread ==
    /\ srv = [p \in Paths |-> [uid_validity |-> 1, uid_next |-> 1, msgs |-> {}]]
    /\ caps = [uidnext |-> TRUE, idle |-> TRUE, move |-> TRUE]
    /\ db = UpsertListed(AccountId, EmptyDb, ListedPaths)
    /\ todo = <<>>
    /\ cyc = [running |-> FALSE, clean |-> FALSE, marked |-> {},
            trashed |-> {}, due |-> {}]
    /\ last = [op |-> "init"]
    /\ wk = InitWorkerThread
    /\ sup = InitSupervisor
    /\ mx = InitMutex
    /\ disk = InitDisk
    /\ budget = MaxIngest

\* a message arrives in folder p and the pass over p hands its FETCH
\* response to process_message
Ingest(p, e, seen, flagged) ==
    /\ budget > 0
    /\ srv[p].uid_next <= MaxUid
    /\ budget' = budget - 1
    /\ \E fetch \in {[uid |-> srv[p].uid_next, seen |-> seen,
                      flagged |-> flagged, draft |-> FALSE, envelope |-> e]} :
       \E r \in {ProcessMessage(AccountId, db,
                                GetFolderById(db, FolderId(AccountId, p)),
                                fetch)} :
          /\ srv' = [srv EXCEPT ![p] = [@ EXCEPT !.msgs = @ \cup {fetch},
                                                 !.uid_next = @ + 1]]
          /\ db' = r.db
          /\ last' = [op |-> "ingest", path |-> p, fetch |-> fetch,
                      result |-> r.result,
                      before |-> {db.message[x].header_message_id :
                                     x \in DOMAIN db.message}]
    /\ UNCHANGED <<caps, todo, cyc, wk, sup, disk, mx>>

NextThread ==
    \E p \in Paths, e \in MessagesOfThread, seen \in BOOLEAN, flagged \in BOOLEAN :
        Ingest(p, e, seen, flagged)

SpecThread == InitThread /\ [][NextThread]_vars

\* the Message rows that carry a Message-ID
RowsWithHeader(h) ==
    {db.message[x] : x \in {y \in DOMAIN db.message :
                               db.message[y].header_message_id = h}}

\* C8: Threading join.  Once M1 (Message-ID a) and M2 (Message-ID b,
\* In-Reply-To a) have both been ingested, in whichever order and into
\* whichever folders, all their rows carry one thread_id, and that thread's
\* unread_count and starred_count are the numbers of unread and of starred
\* rows among them.
C8_ThreadingJoin ==
    LET rows == RowsWithHeader(M1.message_id) \cup RowsWithHeader(M2.message_id)
    IN (RowsWithHeader(M1.message_id) # {} /\ RowsWithHeader(M2.message_id) # {}) =>
          \E t \in DOMAIN db.thread :
             /\ \A r \in rows : r.thread_id = t
             /\ db.thread[t].unread_count =
                   Cardinality({r \in rows : r.unread})
             /\ db.thread[t].starred_count =
                   Cardinality({r \in rows : r.starred})

\* the reply was ingested first, then the message it answers; one of the
\* two is unread and one is starred
C8_Witness ==
    /\ last.op = "ingest" /\ last.result = "New"
    /\ last.fetch.envelope = M1
    /\ last.before = {M2.message_id}
    /\ Cardinality(DOMAIN db.message) = 2
    /\ \E r \in RowsWithHeader(M1.message_id) \cup RowsWithHeader(M2.message_id) :
          r.unread
    /\ \E r \in RowsWithHeader(M1.message_id) \cup RowsWithHeader(M2.message_id) :
          r.starred

\* the row of a server message in the mirror
MirrorRow(p, m) ==
    GetMessageByUid(db, AccountId, FolderId(AccountId, p), m.uid)

\* thread_folder holds a row that ties the thread to the folder
HasThreadFolder(thread_id, folder_id) ==
    \E i \in DOMAIN db.thread_folder :
        db.thread_folder[i] = [account_id |-> AccountId, thread_id |-> thread_id,
                               folder_id |-> folder_id]

\* C9: Same message in two folders.  Two fetched messages with the same
\* Message-ID in two distinct folders have two Message rows with distinct
\* ids and one thread_id, and thread_folder has a row of that thread for
\* each of the two folder ids.
C9_SameMessageTwoFolders ==
    \A p \in Paths, q \in Paths :
    \A m \in srv[p].msgs, n \in srv[q].msgs :
        (/\ p # q
         /\ m.envelope.message_id # None
         /\ m.envelope.message_id = n.envelope.message_id) =>
            LET x == MirrorRow(p, m)
                y == MirrorRow(q, n)
            IN /\ x # NoneRow /\ y # NoneRow
               /\ x.id # y.id
               /\ x.folder_id = FolderId(AccountId, p)
               /\ y.folder_id = FolderId(AccountId, q)
               /\ x.thread_id = y.thread_id
               /\ x.thread_id \in DOMAIN db.thread
               /\ HasThreadFolder(x.thread_id, x.folder_id)
               /\ HasThreadFolder(x.thread_id, y.folder_id)

\* the same envelope has just been ingested in a second folder
C9_Witness ==
    /\ last.op = "ingest" /\ last.result = "New"
    /\ last.fetch.envelope.message_id # None
    /\ \E q \in Paths \ {last.path} : \E n \in srv[q].msgs :
          n.envelope.message_id = last.fetch.envelope.message_id

\* ------------------------------------------------------------------------
\* Move to trash, then the next cycles (dbus MoveToTrash of one message,
\* next to the worker's passes with every IMAP outcome)
\* ------------------------------------------------------------------------
\* MoveToTrash([message_id]): cyc.trashed collects the header ids of the
\* messages that were moved out of another folder with success; CycleStart
\* copies it to cyc.due, the moves that precede the cycle
TrashMoving(message_id, io, fail) ==
    \E info \in {GetMessageInfoById(db, message_id)} :
    \E r \in {MoveToTrash(db, srv, <<message_id>>, io,
                             [has_move |-> caps.move, fail |-> fail])} :
    \E moved \in {IF /\ info # NoneRow
                     /\ info.folder_path # "Trash"
                     /\ message_id \in SeqToSet(r.result.succeeded)
                  THEN {info} ELSE {}} :
        /\ budget > 0
        /\ budget' = budget - 1
        /\ db' = r.db
        /\ srv' = r.srv
        /\ cyc' = [cyc EXCEPT !.clean = FALSE,
                              !.trashed = @ \cup {db.message[m.id].header_message_id :
                                                     m \in moved}]
        /\ last' = [op |-> "trash", ids |-> <<message_id>>, io |-> io,
                    result |-> r.result, moved |-> moved,
                    notified |-> r.result.succeeded # <<>>,
                    fail |-> fail, cmds |-> r.cmds]
        /\ UNCHANGED <<caps, todo, wk, sup, disk, mx>>

\* MoveToTrash([message_id]) with every move command answered OK
TrashOne(message_id, io) ==
    /\ budget > 0
    /\ TrashMoving(message_id, io, None)

NextTrash ==
    \/ \E p \in Paths, e \in Catalog : Deliver(p, e, FALSE)
    \/ \E id \in DOMAIN db.message, io \in ActionOutcomes : TrashOne(id, io)
    \/ CycleStart
    \/ \E io \in IoOutcomes : Pass(io)

SpecTrash == Init /\ [][NextTrash]_vars

\* C11: after MoveToTrash([m]) succeeds for a message m of another folder,
\* that folder holds no Message row with m's UID, and when the next cycle
\* that started after the move has passed over every folder, the trash
\* pass returning Ok, a Message row with m's header_message_id is in the
\* trash folder.
C11_TrashRoundTrip ==
    /\ last.op = "trash" =>
          \A m \in last.moved :
              MessageIdsByUid(db, m.account_id, m.folder_id, m.remote_uid) = {}
    /\ (last.op = "pass" /\ last.cycle_done /\ last.ok
        /\ last.folder.path = "Trash") =>
          \A h \in cyc.due :
              \E id \in DOMAIN db.message :
                  /\ db.message[id].folder_id = last.folder.id
                  /\ db.message[id].header_message_id = h

\* the sources are emptied of the moved UID (the first half of C11 alone)
C11_SourceRowGone ==
    last.op = "trash" =>
        \A m \in last.moved :
            MessageIdsByUid(db, m.account_id, m.folder_id, m.remote_uid) = {}

\* ------------------------------------------------------------------------
\* Attachment files: the worker saving the attachments of a new message
\* (process_attachments / save_attachment_to_disk) next to an on-demand
\* fetch (dbus fetch_attachment / fetch_attachment_from_imap).  One step
\* per file-system call; write_all is a loop of write calls.
\* ------------------------------------------------------------------------
\* the attachments of the mirrored messages; odd ones arrive with their data
\* (below IMMEDIATE_DOWNLOAD_THRESHOLD), even ones without
Attachments == 1..MaxFiles

HasData(f) == f % 2 = 1

\* Attachment::disk_filename under {files_dir}/{account_id}/, and the
\* ".{filename}.tmp" next to it
DiskFilename(f) == <<"file", f>>

TempPath(f) == <<"tmp", f>>

FileStep(op, f, files, rows, save, fetch) ==
    /\ disk' = [files |-> files, rows |-> rows, save |-> save, fetch |-> fetch]
    /\ last' = [op |-> op, f |-> f]
    /\ UNCHANGED <<srv, caps, db, todo, cyc, budget, wk, sup, mx>>

\* save_attachment_to_disk, called for an attachment that has data
SaveAttachmentToDisk ==
    \/ /\ disk.save.pc = "idle"
       /\ \E f \in Attachments \ DOMAIN disk.rows :
             /\ HasData(f)
             /\ IF DiskFilename(f) \in DOMAIN disk.files
                THEN FileStep("exists", f, disk.files, disk.rows,
                              [pc |-> "ok", f |-> f], disk.fetch)
                ELSE FileStep("create", f, PutKey(disk.files, TempPath(f), 0),
                              disk.rows, [pc |-> "write", f |-> f], disk.fetch)
    \/ /\ disk.save.pc = "write"
       /\ \E f \in {disk.save.f} :
          \E done \in {disk.files[TempPath(f)]} :
             \/ \E n \in 1..(MaxBytes - done) :
                   FileStep("write", f, PutKey(disk.files, TempPath(f), done + n),
                            disk.rows, disk.save, disk.fetch)
             \/ /\ done < MaxBytes
                /\ FileStep("write_err", f, disk.files, disk.rows,
                            [pc |-> "err", f |-> f], disk.fetch)
             \/ /\ done = MaxBytes
                /\ FileStep("rename", f,
                            PutKey(DropKey(disk.files, TempPath(f)),
                                   DiskFilename(f), MaxBytes),
                            disk.rows, [pc |-> "ok", f |-> f],
                            IF disk.fetch.pc = "write" /\ disk.fetch.f = f
                            THEN [disk.fetch EXCEPT !.replaced = TRUE]
                            ELSE disk.fetch)

\* the rest of the loop body of process_attachments: the File row
ProcessAttachment ==
    \/ /\ disk.save.pc \in {"ok", "err"}
       /\ FileStep("upsert_file", disk.save.f, disk.files,
                   PutKey(disk.rows, disk.save.f,
                          [size |-> MaxBytes, downloaded |-> disk.save.pc = "ok"]),
                   [pc |-> "idle", f |-> NoneNum], disk.fetch)
    \/ /\ disk.save.pc = "idle"
       /\ \E f \in Attachments \ DOMAIN disk.rows :
             /\ ~HasData(f)
             /\ FileStep("upsert_file", f, disk.files,
                         PutKey(disk.rows, f,
                                [size |-> MaxBytes, downloaded |-> FALSE]),
                         disk.save, disk.fetch)

\* the message of an attachment leaves the mirror: its File row is deleted,
\* the file stays
DeleteFileRow(f) ==
    /\ disk.save.pc = "idle"
    /\ f \in DOMAIN disk.rows
    /\ FileStep("delete_row", f, disk.files, DropKey(disk.rows, f),
                disk.save, disk.fetch)

\* dbus fetch_attachment up to spawn_blocking
FetchAttachment(f) ==
    /\ disk.fetch.pc = "idle"
    /\ f \in DOMAIN disk.rows
    /\ IF disk.rows[f].downloaded /\ DiskFilename(f) \in DOMAIN disk.files
       THEN FileStep("path", f, disk.files, disk.rows, disk.save, disk.fetch)
       ELSE FileStep("spawn", f, disk.files, disk.rows, disk.save,
                     [pc |-> "imap", f |-> f, written |-> 0, replaced |-> FALSE])

\* fetch_attachment_from_imap, then mark_file_downloaded
FetchAttachmentFromImap ==
    \E f \in {disk.fetch.f} :
       \/ /\ disk.fetch.pc = "imap"
          /\ \/ FileStep("imap_err", f, disk.files, disk.rows, disk.save,
                         [pc |-> "idle", f |-> NoneNum])
             \/ FileStep("File::create", f, PutKey(disk.files, DiskFilename(f), 0),
                         disk.rows, disk.save, [disk.fetch EXCEPT !.pc = "write"])
       \/ /\ disk.fetch.pc = "write"
          /\ \E done \in {disk.fetch.written} :
             \/ \E n \in 1..(MaxBytes - done) :
                   FileStep("write", f,
                            IF disk.fetch.replaced THEN disk.files
                            ELSE PutKey(disk.files, DiskFilename(f), done + n),
                            disk.rows, disk.save,
                            [disk.fetch EXCEPT !.written = done + n])
             \/ /\ done < MaxBytes
                /\ FileStep("write_err", f, disk.files, disk.rows, disk.save,
                            [pc |-> "idle", f |-> NoneNum])
             \/ /\ done = MaxBytes
                /\ FileStep("mark_file_downloaded", f, disk.files,
                            IF f \in DOMAIN disk.rows
                            THEN PutKey(disk.rows, f,
                                        [disk.rows[f] EXCEPT !.downloaded = TRUE])
                            ELSE disk.rows,
                            disk.save, [pc |-> "idle", f |-> NoneNum])

InitFiles ==
    /\ InitCommon
    /\ caps = [uidnext |-> TRUE, idle |-> TRUE, move |-> TRUE]
    /\ budget = 0

NextFiles ==
    \/ SaveAttachmentToDisk
    \/ ProcessAttachment
    \/ \E f \in Attachments : DeleteFileRow(f)
    \/ \E f \in Attachments : FetchAttachment(f)
    \/ FetchAttachmentFromImap

SpecFiles == InitFiles /\ [][NextFiles]_vars

\* C12: no file of an attachment in the account's files directory is ever
\* shorter than the size recorded in the attachment's File row.
C12_NoShortFile ==
    \A f \in DOMAIN disk.rows :
        DiskFilename(f) \in DOMAIN disk.files =>
            disk.files[DiskFilename(f)] >= disk.rows[f].size

\* ------------------------------------------------------------------------
\* Supervisor (main): the worker map, reload_accounts and trigger_sync.
\* sup.workers maps an account id to the thread of its WorkerHandle,
\* sup.threads maps a thread to its account, the messages queued in its two
\* channels and whether the senders (the handle) still exist.
\* ------------------------------------------------------------------------
\* account ids are 1..MaxAccounts; the empty string is 0
EmptyAccountId == 0

\* "for account in &accounts": spawn_worker for the ids not in existing_ids
RECURSIVE StartWorkers(_, _, _)
StartWorkers(s, accounts, existing_ids) ==
    IF accounts = <<>> THEN s
    ELSE LET id == Head(accounts)
             t == NewUuid(DOMAIN s.threads)
         IN StartWorkers(
                IF id \in existing_ids THEN s
                ELSE [s EXCEPT
                         !.threads = PutKey(@, t, [account |-> id, shutdown_q |-> 0,
                                                   trigger_q |-> 0, handle |-> TRUE]),
                         !.workers = PutKey(@, id, t)],
                Tail(accounts), existing_ids)

StopWorkersKeep(s, removed) == s

\* "for account_id in existing_ids.difference(&current_ids)": remove the
\* handle, send the shutdown signal, drop the handle
RECURSIVE StopWorkers(_, _)
StopWorkers(s, removed) ==
    IF removed = <<>> THEN s
    ELSE LET id == Head(removed)
         IN StopWorkers(
                IF id \notin DOMAIN s.workers THEN s
                ELSE [s EXCEPT
                         !.workers = DropKey(@, id),
                         !.threads = PutKey(@, s.workers[id],
                                            [s.threads[s.workers[id]] EXCEPT
                                                !.shutdown_q = @ + 1,
                                                !.handle = FALSE])],
                Tail(removed))

\* reload_accounts; reload is the result of AccountManager::reload()
ReloadAccounts(reload) ==
    /\ sup.reloads < MaxReloads
    /\ \E existing_ids \in {DOMAIN sup.workers} :
       \E current_ids \in {SeqToSet(reload.accounts)} :
          /\ sup' = [(IF ~reload.ok THEN sup
                      ELSE StopWorkers(
                               StartWorkers(sup, reload.accounts, existing_ids),
                               SetToSeq(existing_ids \ current_ids)))
                     EXCEPT !.reloads = @ + 1]
          /\ last' = [op |-> "reload", ok |-> reload.ok,
                      accounts |-> current_ids, existing |-> existing_ids]
    /\ UNCHANGED <<srv, caps, db, todo, cyc, budget, wk, disk, mx>>

TriggerSyncToAll(s, account_id) ==
    [sup |-> [s EXCEPT !.threads =
                 Table([t \in DOMAIN @ |-> [@[t] EXCEPT !.trigger_q = @ + 1]])],
     log |-> None]

\* trigger_sync
TriggerSyncTo(s, account_id) ==
    IF account_id = EmptyAccountId
    THEN [sup |-> [s EXCEPT !.threads =
                      Table([t \in DOMAIN @ |->
                                IF \E id \in DOMAIN s.workers : s.workers[id] = t
                                THEN [@[t] EXCEPT !.trigger_q = @ + 1]
                                ELSE @[t]])],
          log |-> None]
    ELSE IF account_id \in DOMAIN s.workers
    THEN [sup |-> [s EXCEPT !.threads[s.workers[account_id]].trigger_q = @ + 1],
          log |-> None]
    ELSE [sup |-> s, log |-> "Account not found"]

\* the main loop takes a sync-now request off sync_trigger_rx
SyncNow(account_id) ==
    /\ sup.triggers < MaxSyncNow
    /\ \E r \in {TriggerSyncTo(sup, account_id)} :
          /\ sup' = [r.sup EXCEPT !.triggers = @ + 1]
          /\ last' = [op |-> "trigger_sync", account_id |-> account_id,
                      log |-> r.log, workers |-> DOMAIN sup.workers]
    /\ UNCHANGED <<srv, caps, db, todo, cyc, budget, wk, disk, mx>>

\* what AccountManager::reload() can return
Reloads ==
    {[ok |-> TRUE, accounts |-> SetToSeq(A)] : A \in SUBSET (1..MaxAccounts)}
    \cup {[ok |-> FALSE, accounts |-> <<>>]}

InitMain ==
    /\ InitCommon
    /\ caps = [uidnext |-> TRUE, idle |-> TRUE, move |-> TRUE]
    /\ budget = 0

NextMain ==
    \/ \E reload \in Reloads : ReloadAccounts(reload)
    \/ \E account_id \in 0..MaxAccounts : SyncNow(account_id)

SpecMain == InitMain /\ [][NextMain]_vars

\* C13: after a reload that yields the account set A the worker map has
\* exactly the ids of A; each id that had no worker got a freshly spawned
\* thread, each worker whose id is not in A was sent one shutdown signal and
\* lost its handle, the workers that stay keep their thread and get no
\* signal, and no other thread is touched; a failed reload changes nothing.
C13_ReloadAccounts ==
    [][last'.op = "reload" =>
        IF ~last'.ok
        THEN sup'.workers = sup.workers /\ sup'.threads = sup.threads
        ELSE
          /\ DOMAIN sup'.workers = last'.accounts
          /\ \A id \in last'.accounts \ DOMAIN sup.workers :
                /\ sup'.workers[id] \notin DOMAIN sup.threads
                /\ sup'.threads[sup'.workers[id]] =
                      [account |-> id, shutdown_q |-> 0, trigger_q |-> 0,
                       handle |-> TRUE]
          /\ \A id \in DOMAIN sup.workers \ last'.accounts :
                sup'.threads[sup.workers[id]] =
                    [sup.threads[sup.workers[id]] EXCEPT
                        !.shutdown_q = @ + 1, !.handle = FALSE]
          /\ \A id \in DOMAIN sup.workers \cap last'.accounts :
                /\ sup'.workers[id] = sup.workers[id]
                /\ sup'.threads[sup.workers[id]] = sup.threads[sup.workers[id]]
          /\ \A id, other \in DOMAIN sup'.workers :
                sup'.workers[id] = sup'.workers[other] => id = other
          /\ \A t \in DOMAIN sup.threads :
                (\A id \in DOMAIN sup.workers : sup.workers[id] # t) =>
                    sup'.threads[t] = sup.threads[t]]_vars

\* a reload that starts a worker, stops one and keeps one
C13_Witness ==
    /\ last.op = "reload"
    /\ last.ok
    /\ last.accounts \ last.existing # {}
    /\ last.existing \ last.accounts # {}
    /\ last.accounts \cap last.existing # {}
    /\ DOMAIN sup.workers = last.accounts

\* C14: a sync-now request with the empty id puts one trigger into the
\* channel of every worker of the map, one with the id of a worker puts one
\* trigger into that worker's channel only, and one with any other id puts
\* no trigger anywhere and logs "Account not found".
C14_SyncNowRouting ==
    [][last'.op = "trigger_sync" =>
        LET hit == IF last'.account_id = EmptyAccountId
                   THEN {sup.workers[id] : id \in DOMAIN sup.workers}
                   ELSE IF last'.account_id \in DOMAIN sup.workers
                   THEN {sup.workers[last'.account_id]}
                   ELSE {}
        IN /\ sup'.workers = sup.workers
           /\ DOMAIN sup'.threads = DOMAIN sup.threads
           /\ \A t \in DOMAIN sup.threads :
                 sup'.threads[t] =
                     IF t \in hit
                     THEN [sup.threads[t] EXCEPT !.trigger_q = @ + 1]
                     ELSE sup.threads[t]
           /\ (last'.log = "Account not found") <=>
                 (/\ last'.account_id # EmptyAccountId
                  /\ last'.account_id \notin DOMAIN sup.workers)]_vars

\* a request for one of two workers, next to the thread of a removed account
C14_Witness ==
    /\ last.op = "trigger_sync"
    /\ last.account_id \in last.workers
    /\ Cardinality(last.workers) >= 2
    /\ \E t \in DOMAIN sup.threads : ~sup.threads[t].handle
    /\ \E t \in DOMAIN sup.threads : sup.threads[t].trigger_q = 1
    /\ \E t \in DOMAIN sup.threads :
          sup.threads[t].handle /\ sup.threads[t].trigger_q = 0

\* ------------------------------------------------------------------------
\* The worker thread under fair scheduling: the thread is a running OS
\* thread, every wait of its loops is a bounded sleep or an IDLE wait with a
\* timeout, so it keeps taking steps until it has exited.  (The supervisor
\* is driven from outside and has no such obligation.)
\* ------------------------------------------------------------------------
SpecWorkerFair == SpecWorker /\ WF_vars(WorkerThread)

\* a step of the worker thread: the supervisor adds nothing to the channels
\* and does not touch the handle
WorkerMoves ==
    /\ wk' # wk
    /\ wk'.handle = wk.handle
    /\ wk'.shutdown_q <= wk.shutdown_q
    /\ wk'.trigger_q <= wk.trigger_q

\* C15 as stated: every pending sync trigger is followed by the start of a
\* sync cycle of the worker.
C15_TriggerNeverLost ==
    (wk.trigger_q > 0) ~> (last.op = "cycle_start")

\* C15: a worker parked in the IDLE loop or the poll wait with a trigger
\* pending leaves the wait at its next check, and every pending trigger is
\* followed by the start of a sync cycle unless the thread ends first (it
\* takes the shutdown signal at the top of its loop or in the retry wait).
C15_TriggerLeadsToCycle ==
    /\ [][(wk.pc \in {"idle", "poll"} /\ wk.trigger_q > 0 /\ WorkerMoves)
            => wk'.pc = "top"]_vars
    /\ (wk.trigger_q > 0) ~> (last.op = "cycle_start" \/ wk.pc = "exited")

\* a wait has just returned on a trigger and nothing stops the next cycle
C15_Witness ==
    /\ last.op = "triggered"
    /\ wk.pc = "top"
    /\ wk.shutdown_q = 0

\* ------------------------------------------------------------------------
\* Sync mode
\* ------------------------------------------------------------------------
\* the mode and the clearing the decision rule prescribes for a stored and
\* a server state
ModeRule(stored, server) ==
    LET differs == /\ stored.uid_validity # NoneNum
                   /\ server.uid_validity # NoneNum
                   /\ stored.uid_validity # server.uid_validity
    IN [mode |-> IF differs \/ stored.uid_next = NoneNum
                 THEN "Full" ELSE "Incremental",
        cleared |-> differs]

\* C16: the mode of a pass is Full if stored and server UIDVALIDITY are both
\* present and differ or if no uid_next is stored, and Incremental
\* otherwise; the folder's messages are cleared exactly when the UIDVALIDITYs
\* are both present and differ.  Stated for every pair of states with values
\* up to MaxUid + 1 (0 is "absent"), and for every pass that got past SELECT.
C16_SyncModeDecision ==
    /\ \A sv, su, ev, eu \in 0..(MaxUid + 1) :
          LET stored == [uid_validity |-> sv, uid_next |-> su]
              server == [exists |-> 1, uid_validity |-> ev, uid_next |-> eu]
          IN DetermineSyncMode(stored, server) = ModeRule(stored, server).mode
    /\ (last.op = "pass" /\ last.mode # None) =>
          LET rule == ModeRule(last.stored, SelectMailbox(srv[last.folder.path]))
          IN /\ last.mode = rule.mode
             /\ last.cleared = rule.cleared

\* a pass that finds a new UIDVALIDITY next to a stored cursor: Full, cleared
C16_Witness ==
    /\ last.op = "pass"
    /\ last.mode = "Full"
    /\ last.cleared
    /\ last.stored.uid_next # NoneNum
    /\ last.stored.uid_validity # srv[last.folder.path].uid_validity

\* ------------------------------------------------------------------------
\* The sync cursor of a Folder row
\* ------------------------------------------------------------------------
Cursor(folder) ==
    <<folder.uid_validity, folder.uid_next, folder.highest_mod_seq>>

\* C17: upsert_folder on an existing Folder id leaves uid_validity, uid_next
\* and highest_mod_seq as they are, whatever the upserted value carries; the
\* folder-list upsert at the start of a cycle changes no stored cursor; and
\* the cursor of an existing row changes only in a pass over that folder
\* that reached save_folder_sync_state.
C17_CursorFrame ==
    [][/\ \A id \in DOMAIN db.folder, v \in 0..MaxUid :
             Cursor(UpsertFolder(db, [db.folder[id] EXCEPT
                                         !.uid_validity = v, !.uid_next = v,
                                         !.highest_mod_seq = v]).folder[id])
             = Cursor(db.folder[id])
       /\ last'.op = "start" =>
             \A id \in DOMAIN db.folder : Cursor(db'.folder[id]) = Cursor(db.folder[id])
       /\ \A id \in DOMAIN db.folder \cap DOMAIN db'.folder :
             Cursor(db'.folder[id]) # Cursor(db.folder[id]) =>
                /\ last'.op = "pass"
                /\ last'.ok
                /\ last'.folder.id = id]_vars

\* a cycle has started over a folder whose cursor was stored before
C17_Witness ==
    /\ last.op = "start"
    /\ \E id \in DOMAIN db.folder :
          db.folder[id].uid_validity # NoneNum /\ db.folder[id].uid_next # NoneNum

\* ------------------------------------------------------------------------
\* Account purge (dbus delete_account / delete_account_data) in a Store that
\* mirrors two accounts
\* ------------------------------------------------------------------------
OtherAccountId == "acc2"

Accounts == {AccountId, OtherAccountId}

\* the k-th DELETE of delete_account_data
PurgeStatement(d, account_id, k) ==
    CASE k = 1 ->
           [d EXCEPT !.message_body =
               Table([id \in {x \in DOMAIN @ :
                                ~(/\ x \in DOMAIN d.message
                                  /\ d.message[x].account_id = account_id)} |-> @[id]])]
      [] k = 2 ->
           [d EXCEPT !.message =
               Table([id \in {x \in DOMAIN @ : @[x].account_id # account_id} |-> @[id]])]
      [] k = 3 ->
           [d EXCEPT !.thread_folder =
               SelectSeq(@, LAMBDA r : r.account_id # account_id)]
      [] k = 4 ->
           [d EXCEPT !.thread_reference = {r \in @ : r.account_id # account_id}]
      [] k = 5 ->
           [d EXCEPT !.thread =
               Table([id \in {x \in DOMAIN @ : @[x].account_id # account_id} |-> @[id]])]
      [] k = 6 ->
           [d EXCEPT !.folder =
               Table([id \in {x \in DOMAIN @ : @[x].account_id # account_id} |-> @[id]])]
      [] k = 7 ->
           [d EXCEPT !.file =
               Table([id \in {x \in DOMAIN @ : @[x].account_id # account_id} |-> @[id]])]

\* the statements 1..n inside the transaction
RECURSIVE PurgeStatements(_, _, _)
PurgeStatements(d, account_id, n) ==
    IF n = 0 THEN d
    ELSE PurgeStatement(PurgeStatements(d, account_id, n - 1), account_id, n)

\* (mutation) the statements run without a transaction
DeleteAccountDataAutocommit(d, account_id, fail_at) ==
    IF fail_at = 0 THEN [db |-> PurgeStatements(d, account_id, 7), ok |-> TRUE]
    ELSE [db |-> PurgeStatements(d, account_id, Min(Max(fail_at - 1, 0), 7)),
          ok |-> FALSE]

\* delete_account_data: fail_at = 0 when every call succeeds, k in 1..7 when
\* the k-th DELETE fails, 8 when the commit fails; an error returns through
\* "?", the Transaction is dropped and rolls back
DeleteAccountData(d, account_id, fail_at) ==
    LET tx == PurgeStatements(d, account_id,
                              IF fail_at = 0 THEN 7 ELSE Min(fail_at - 1, 7))
    IN IF fail_at = 0 THEN [db |-> tx, ok |-> TRUE]
       ELSE [db |-> d, ok |-> FALSE]

\* dbus delete_account, the Store part
DeleteAccount(account_id, fail_at) ==
    /\ \E r \in {DeleteAccountData(db, account_id, fail_at)} :
          /\ db' = r.db
          /\ last' = [op |-> "purge", account_id |-> account_id, ok |-> r.ok,
                      fail_at |-> fail_at,
                      rows |-> Cardinality({id \in DOMAIN db.message :
                                  db.message[id].account_id = account_id})]
    /\ UNCHANGED <<srv, caps, todo, cyc, budget, wk, sup, disk, mx>>

\* a pass of the worker of account acct hands a new message of folder p to
\* process_message
IngestFor(acct, p, e) ==
    /\ budget > 0
    /\ budget' = budget - 1
    /\ \E folder \in {GetFolderById(db, FolderId(acct, p))} :
          /\ folder # NoneRow
          /\ \E fetch \in {[uid |-> 1 + Cardinality({id \in DOMAIN db.message :
                                        db.message[id].folder_id = folder.id}),
                            seen |-> FALSE, flagged |-> FALSE, draft |-> FALSE,
                            envelope |-> e]} :
             \E r \in {ProcessMessage(acct, db, folder, fetch)} :
                /\ db' = r.db
                /\ last' = [op |-> "ingest", path |-> p, fetch |-> fetch,
                            result |-> r.result]
    /\ UNCHANGED <<srv, caps, todo, cyc, wk, sup, disk, mx>>

InitPurge ==
    /\ srv = [p \in Paths |-> [uid_validity |-> 1, uid_next |-> 1, msgs |-> {}]]
    /\ caps = [uidnext |-> TRUE, idle |-> TRUE, move |-> TRUE]
    /\ db = UpsertListed(OtherAccountId,
                         UpsertListed(AccountId, EmptyDb, ListedPaths), ListedPaths)
    /\ todo = <<>>
    /\ cyc = [running |-> FALSE, clean |-> FALSE, marked |-> {},
            trashed |-> {}, due |-> {}]
    /\ last = [op |-> "init"]
    /\ budget = MaxIngest
    /\ wk = InitWorkerThread
    /\ sup = InitSupervisor
    /\ mx = InitMutex
    /\ disk = InitDisk

NextPurge ==
    \/ \E acct \in Accounts, p \in Paths, e \in Catalog : IngestFor(acct, p, e)
    \/ \E acct \in Accounts, fail_at \in 0..8 : DeleteAccount(acct, fail_at)

SpecPurge == InitPurge /\ [][NextPurge]_vars

\* the rows of account a, table by table (a message_body row belongs to the
\* account named in its message id)
RowsOfAccount(d, a) ==
    [message_body |-> {<<id, d.message_body[id]>> :
                          id \in {x \in DOMAIN d.message_body : x[1] = a}},
     message |-> {d.message[id] : id \in {x \in DOMAIN d.message :
                                             d.message[x].account_id = a}},
     thread_folder |-> SelectSeq(d.thread_folder, LAMBDA r : r.account_id = a),
     thread_reference |-> {r \in d.thread_reference : r.account_id = a},
     thread |-> {d.thread[id] : id \in {x \in DOMAIN d.thread :
                                           d.thread[x].account_id = a}},
     folder |-> {d.folder[id] : id \in {x \in DOMAIN d.folder :
                                           d.folder[x].account_id = a}},
     file |-> {d.file[id] : id \in {x \in DOMAIN d.file : d.file[x].account_id = a}}]

\* C18: delete_account_data(id) leaves either no row of that account in
\* message_body, message, thread_folder, thread_reference, thread, folder
\* and file (it returned Ok), or every row as it was (it returned an error);
\* the rows of the other accounts are the same before and after.
C18_PurgeAllOrNothing ==
    [][last'.op = "purge" =>
        /\ \A a \in Accounts \ {last'.account_id} :
              RowsOfAccount(db', a) = RowsOfAccount(db, a)
        /\ IF last'.ok
           THEN RowsOfAccount(db', last'.account_id)
                    = RowsOfAccount(EmptyDb, last'.account_id)
           ELSE db' = db]_vars

\* a purge that succeeded in a Store holding messages, threads and files of
\* the purged account, next to messages of the other one that are still there
C18_Witness ==
    /\ last.op = "purge"
    /\ last.ok
    /\ last.rows > 0
    /\ DOMAIN db.folder # {}
    /\ DOMAIN db.message # {}
    /\ DOMAIN db.file # {}
    /\ DOMAIN db.thread # {}
    /\ \A id \in DOMAIN db.folder : db.folder[id].account_id # last.account_id

\* ------------------------------------------------------------------------
\* A flag action next to a pass, command by command.  The pass takes the
\* Store mutex, sends its FETCH, processes the response and releases the
\* mutex; the action looks its ids up under the mutex, sends UID STORE
\* without it and takes it again for the rows.  mx.fetched is the mailbox as
\* the FETCH of the running pass saw it, mx.act the action under way.
\* ------------------------------------------------------------------------
\* sync_folder_full / sync_folder_incremental up to the FETCH response:
\* "let db = self.db.lock().unwrap()", then the command
PassFetch ==
    /\ cyc.running
    /\ todo # <<>>
    /\ mx.holder = None
    /\ mx.fetched = NoneRow
    /\ mx' = [mx EXCEPT
                 !.holder = IF srv[Head(todo).path].msgs # {} THEN "worker" ELSE None,
                 !.fetched = [mb |-> srv[Head(todo).path]]]
    /\ last' = [op |-> "fetch", folder |-> Head(todo)]
    /\ UNCHANGED <<srv, caps, db, todo, cyc, budget, wk, sup, disk>>

\* the rest of the pass: the response is processed, the guard is dropped,
\* the cursor is saved
PassProcess ==
    /\ mx.fetched # NoneRow
    /\ PassOver(IoAllOk, mx.fetched.mb)
    /\ mx' = [mx EXCEPT !.holder = None, !.fetched = NoneRow]

\* perform_flag_action, first block: the lookup under the mutex
FlagLookup(message_ids, action) ==
    /\ budget > 0
    /\ mx.holder = None
    /\ mx.act = NoneRow
    /\ LookupInfos(db, message_ids) # <<>>
    /\ budget' = budget - 1
    /\ mx' = [mx EXCEPT !.act = [infos |-> LookupInfos(db, message_ids),
                                 action |-> action, stored |-> FALSE]]
    /\ cyc' = [cyc EXCEPT !.clean = FALSE]
    /\ last' = [op |-> "lookup", ids |-> message_ids, action |-> action]
    /\ UNCHANGED <<srv, caps, db, todo, wk, sup, disk>>

\* perform_flag_action: connect, SELECT, UID STORE (no mutex)
FlagStore ==
    /\ mx.act # NoneRow
    /\ ~mx.act.stored
    /\ srv' = FlagFolders(db, srv, mx.act.infos, FolderPathsOf(mx.act.infos),
                          mx.act.action,
                          [connect |-> TRUE, select_err |-> {}, store_err |-> {}],
                          NewActionResult).srv
    /\ mx' = [mx EXCEPT !.act.stored = TRUE,
                         !.raced = @ \/ mx.fetched # NoneRow]
    /\ cyc' = [cyc EXCEPT !.clean = FALSE]
    /\ last' = [op |-> "store", holder |-> mx.holder]
    /\ UNCHANGED <<caps, db, todo, budget, wk, sup, disk>>

\* perform_flag_action after the STORE: the mutex again, then the rows
FlagUpdate ==
    /\ mx.act # NoneRow
    /\ mx.act.stored
    /\ mx.holder = None
    /\ db' = ApplyFlagToRows(db, mx.act.infos, mx.act.action)
    /\ mx' = [mx EXCEPT !.act = NoneRow]
    /\ cyc' = [cyc EXCEPT !.clean = FALSE]
    /\ last' = [op |-> "update"]
    /\ UNCHANGED <<srv, caps, todo, budget, wk, sup, disk>>

NextRace ==
    \/ \E seen \in BOOLEAN : Deliver("INBOX", M1, seen)
    \/ CycleStart
    \/ PassFetch
    \/ PassProcess
    \/ \E id \in DOMAIN db.message,
          action \in {"MarkRead", "MarkUnread", "Flag", "Unflag"} :
          FlagLookup(<<id>>, action)
    \/ FlagStore
    \/ FlagUpdate

SpecRace == Init /\ [][NextRace]_vars

\* the flags of a Message row are those of the server's message with its UID
FlagsAsOnServer(row) ==
    \E m \in srv[db.folder[row.folder_id].path].msgs :
        /\ m.uid = row.remote_uid
        /\ row.unread = ~m.seen
        /\ row.starred = m.flagged
        /\ row.draft = m.draft

C20_NoMutexAcrossImap ==
    ~(mx.holder # None /\ mx.fetched # NoneRow)

\* ------------------------------------------------------------------------
\* The worker thread with its cycle taken folder by folder: spawn_worker
\* calls sync_with_idle, which connects, lists, runs
\* sync_all_folder_messages (one sync_folder_messages per folder) and then
\* waits.  wk.pc = "folders" is the thread inside sync_all_folder_messages.
\* ------------------------------------------------------------------------
\* sync_with_idle up to sync_folders; an error of connect or LIST is an Err
WorkerConnect(ok) ==
    /\ wk.pc = "cycle"
    /\ IF ok
       THEN CycleBegin([wk EXCEPT !.pc = "folders"])
       ELSE WorkerStep([wk EXCEPT !.pc = "retry", !.waited = 0])

\* one turn of the loops of sync_all_folder_messages
FolderPass(io) ==
    /\ wk.pc = "folders"
    /\ Pass(io)

\* sync_all_folder_messages returns Ok(()); the wait begins
FoldersDone ==
    /\ wk.pc = "folders"
    /\ todo = <<>>
    /\ WorkerStep([wk EXCEPT !.waited = 0, !.pc = WaitAfterSync(srv)])

InitStop ==
    /\ InitCommon
    /\ caps \in {[uidnext |-> TRUE, idle |-> i, move |-> TRUE] : i \in BOOLEAN}
    /\ budget = 1

NextStop ==
    \/ SpawnWorker
    \/ SignalShutdown
    \/ LoopTop
    \/ \E ok \in BOOLEAN : WorkerConnect(ok)
    \/ \E io \in IoOutcomes : FolderPass(io)
    \/ FoldersDone
    \/ \E outcome \in {"MailboxChanged", "TimedOut", "WaitErr", "IdleErr"} :
          IdleTurn(outcome)
    \/ PollTurn
    \/ RetryTurn
    \/ \E seen \in BOOLEAN : Deliver("INBOX", M1, seen)

SpecStop == InitStop /\ [][NextStop]_vars

\* C21: once shutdown has been signalled, the worker begins no pass over
\* another folder of the running cycle: no pass starts in a state where the
\* signal is in the channel and a folder of this cycle has been synced.
C21_NoPassAfterShutdown ==
    [][~(/\ wk.pc = "folders"
         /\ wk.shutdown_q > 0
         /\ todo # <<>>
         /\ Len(todo) < Len(ListedPaths)
         /\ todo' = Tail(todo)
         /\ last'.op = "pass")]_vars

\* ------------------------------------------------------------------------
\* Thread counts
\* ------------------------------------------------------------------------
\* C22: in every reachable state the unread_count and starred_count of each
\* Thread are >= 0; after an action that decrements a count that is 0 the
\* count of that thread is 0.
C22_CountsNotNegative ==
    /\ \A t \in DOMAIN db.thread :
          /\ db.thread[t].unread_count >= 0
          /\ db.thread[t].starred_count >= 0
    /\ (last.op = "flag") =>
          \A t \in last.at_zero :
              \/ /\ last.action = "MarkRead"
                 /\ db.thread[t].unread_count = 0
              \/ /\ last.action = "Unflag"
                 /\ db.thread[t].starred_count = 0

\* an Unflag of a message whose thread has a starred count of 0 was stored
C22_Witness ==
    /\ last.op = "flag"
    /\ last.action = "Unflag"
    /\ last.at_zero # {}
    /\ \A t \in last.at_zero : db.thread[t].starred_count = 0

\* ------------------------------------------------------------------------
\* The thread_folder table under the calls of the store's interface:
\* the threader, and insert_thread_folder called by itself
\* ------------------------------------------------------------------------
\* db::insert_thread_folder(conn, &tf) for a thread and a folder of the
\* Store
InsertThreadFolderCall(thread_id, folder_id) ==
    /\ budget > 0
    /\ budget' = budget - 1
    /\ db' = InsertThreadFolder(db, AccountId, thread_id, folder_id)
    /\ last' = [op |-> "insert_thread_folder",
                present |-> ThreadFolderExists(db, AccountId, thread_id, folder_id)]
    /\ UNCHANGED <<srv, caps, todo, cyc, wk, sup, disk, mx>>

NextThreadFolder ==
    \/ \E p \in Paths, e \in MessagesOfThread, seen \in BOOLEAN :
          Ingest(p, e, seen, FALSE)
    \/ \E t \in DOMAIN db.thread, f \in DOMAIN db.folder :
          InsertThreadFolderCall(t, f)

SpecThreadFolder == InitThread /\ [][NextThreadFolder]_vars

\* C23: thread_folder is a set: at most one row per (account_id,
\* thread_id, folder_id), also after insert_thread_folder was called with
\* a triple that is present.
C23_ThreadFolderIsSet ==
    \A i, j \in DOMAIN db.thread_folder :
        db.thread_folder[i] = db.thread_folder[j] => i = j

\* the same, as far as the threader alone fills the table
C23_ThreaderKeepsSet ==
    (last.op # "insert_thread_folder") => C23_ThreadFolderIsSet

\* ------------------------------------------------------------------------
\* models/file.rs: sanitize_filename.  A filename is a sequence of
\* characters; a character is written as itself, NUL, BEL (a control
\* character), TAB (a control character that is white space) and NBSP (white
\* space that is no control character) by their names.
\* ------------------------------------------------------------------------
Chars ==
    {"a", ".", "_", " ", "NBSP", "NUL", "BEL", "TAB",
     "/", "\\", ":", "*", "?", "\"", "<", ">", "|"}

\* char::is_control
IsControl(c) == c \in {"NUL", "BEL", "TAB"}

\* char::is_whitespace, which str::trim goes by
IsWhitespace(c) == c \in {" ", "NBSP", "TAB"}

\* (mutation) the match without its '\\' arm
SanitizeCharKeepsBackslash(c) ==
    IF c \in {"/", ":", "*", "?", "\"", "<", ">", "|", "NUL"} THEN "_"
    ELSE IF IsControl(c) THEN "_"
    ELSE c

\* the closure of .map(): the match on one character
SanitizeChar(c) ==
    IF c \in {"/", "\\", ":", "*", "?", "\"", "<", ">", "|", "NUL"} THEN "_"
    ELSE IF IsControl(c) THEN "_"
    ELSE c

\* str::trim_start, str::trim_end, str::trim
RECURSIVE TrimStart(_)
TrimStart(s) ==
    IF s # <<>> /\ IsWhitespace(Head(s)) THEN TrimStart(Tail(s)) ELSE s

RECURSIVE TrimEnd(_)
TrimEnd(s) ==
    IF s # <<>> /\ IsWhitespace(s[Len(s)])
    THEN TrimEnd(SubSeq(s, 1, Len(s) - 1))
    ELSE s

Trim(s) == TrimEnd(TrimStart(s))

\* "attachment".to_string()
AttachmentName == <<"a", "t", "t", "a", "c", "h", "m", "e", "n", "t">>

\* sanitize_filename
SanitizeFilename(name) ==
    LET sanitized == [i \in DOMAIN name |-> SanitizeChar(name[i])]
        trimmed == Trim(sanitized)
    IN IF trimmed = <<>> THEN AttachmentName ELSE trimmed

\* the filenames of the inputs
Filenames == UNION {[1..n -> Chars] : n \in 0..MaxName}

InitNames ==
    /\ srv = [p \in Paths |-> [uid_validity |-> 1, uid_next |-> 1, msgs |-> {}]]
    /\ caps = [uidnext |-> TRUE, idle |-> TRUE, move |-> TRUE]
    /\ db = EmptyDb
    /\ todo = <<>>
    /\ cyc = [running |-> FALSE, clean |-> FALSE, marked |-> {},
            trashed |-> {}, due |-> {}]
    /\ \E name \in Filenames : last = [op |-> "filename", name |-> name]
    /\ wk = InitWorkerThread
    /\ sup = InitSupervisor
    /\ mx = InitMutex
    /\ disk = InitDisk
    /\ budget = 0

\* a call of sanitize_filename
Sanitize ==
    /\ last.op = "filename"
    /\ last' = [op |-> "sanitized", name |-> last.name,
                result |-> SanitizeFilename(last.name)]
    /\ UNCHANGED <<srv, caps, db, todo, cyc, budget, wk, sup, disk, mx>>

NextNames == Sanitize

SpecNames == InitNames /\ [][NextNames]_vars

\* the characters the claim names, and the name with each of them
\* replaced
Unsafe == {"/", "\\", ":", "*", "?", "\"", "<", ">", "|", "NUL", "BEL", "TAB"}

Replaced(name) ==
    [i \in DOMAIN name |-> IF name[i] \in Unsafe THEN "_" ELSE name[i]]

\* C24: sanitize_filename maps each of / \ : * ? " < > | NUL and every
\* control character to '_', trims the white space around the result and
\* returns "attachment" when nothing is left; the result is never empty and
\* holds no path separator.
C24_SanitizeFilename ==
    (last.op = "sanitized") =>
        LET r == Replaced(last.name)
            kept == {i \in DOMAIN r : r[i] \notin {" ", "NBSP"}}
        IN /\ last.result # <<>>
           /\ \A i \in DOMAIN last.result : last.result[i] \notin {"/", "\\"}
           /\ IF kept = {}
              THEN last.result = AttachmentName
              ELSE \E lo \in kept, hi \in kept :
                      /\ \A i \in kept : lo <= i /\ i <= hi
                      /\ last.result = SubSeq(r, lo, hi)

\* a name with white space in front and a separator inside
C24_Witness ==
    /\ last.op = "sanitized"
    /\ Len(last.name) = 3
    /\ last.name[1] = " "
    /\ last.name[2] = "\\"
    /\ last.result = <<"_", last.name[3]>>
    /\ last.name[3] = "a"

\* ------------------------------------------------------------------------
\* The persisted cursor (checked under Spec)
\* ------------------------------------------------------------------------
\* C25: a persisted cursor skips no unmirrored message.  After an
\* incremental pass that moved the stored uid_next of its folder from N to
\* N', every message on the server with N <= UID < N' has a Message row,
\* whichever commands of the pass failed.
C25_CursorSkipsNothing ==
    (/\ last.op = "pass"
     /\ last.mode = "Incremental"
     /\ db.folder[last.folder.id].uid_next > last.stored.uid_next) =>
        \A m \in srv[last.folder.path].msgs :
            (/\ last.stored.uid_next <= m.uid
             /\ m.uid < db.folder[last.folder.id].uid_next) =>
                MessageIdsByUid(db, AccountId, last.folder.id, m.uid) # {}

\* ------------------------------------------------------------------------
\* The supervisor with its threads running: each thread of sup.threads
\* goes through the loop of spawn_worker.  sup.pcs[t] is the position of
\* thread t: "top" (head of the loop, also for a thread just spawned),
\* "cycle" (inside sync_with_idle, before the wait), "wait" (idle_loop or
\* poll_wait), "retry" (the wait after an Err), "exited".
\* ------------------------------------------------------------------------
ThreadPc(s, t) == IF t \in DOMAIN s.pcs THEN s.pcs[t] ELSE "top"

\* a step of thread t: its new position and what is left in its shutdown
\* channel
ThreadStep(t, pc, shutdown_q) ==
    /\ sup' = [sup EXCEPT !.pcs = PutKey(@, t, pc),
                          !.threads[t].shutdown_q = shutdown_q,
                          !.threads[t].trigger_q =
                              IF pc = "cycle" THEN TryRecv(@).q ELSE @]
    /\ last' = [op |-> "thread", thread |-> t, pc |-> pc]
    /\ UNCHANGED <<srv, caps, db, todo, cyc, budget, wk, disk, mx>>

\* head of the loop of spawn_worker
ThreadTop(t) ==
    /\ ThreadPc(sup, t) = "top"
    /\ IF TryRecv(sup.threads[t].shutdown_q).ok
       THEN ThreadStep(t, "exited", TryRecv(sup.threads[t].shutdown_q).q)
       ELSE ThreadStep(t, "cycle", sup.threads[t].shutdown_q)

\* sync_with_idle up to the wait
ThreadCycle(t, ok) ==
    /\ ThreadPc(sup, t) = "cycle"
    /\ ThreadStep(t, IF ok THEN "wait" ELSE "retry", sup.threads[t].shutdown_q)

\* idle_loop / poll_wait: a shutdown signal is taken off the channel and
\* the wait returns Ok(()), as it does for a trigger, a change of the
\* mailbox and the timeout
ThreadWait(t) ==
    /\ ThreadPc(sup, t) = "wait"
    /\ ThreadStep(t, "top", TryRecv(sup.threads[t].shutdown_q).q)

\* the wait after a failed cycle
ThreadRetry(t) ==
    /\ ThreadPc(sup, t) = "retry"
    /\ IF TryRecv(sup.threads[t].shutdown_q).ok
       THEN ThreadStep(t, "exited", TryRecv(sup.threads[t].shutdown_q).q)
       ELSE ThreadStep(t, "top", sup.threads[t].shutdown_q)

\* reloads of a configuration with one account less than the largest
ReloadsOfFew ==
    {reload \in Reloads : \A i \in DOMAIN reload.accounts :
                             reload.accounts[i] < MaxAccounts}

NextReload ==
    \/ \E reload \in ReloadsOfFew : ReloadAccounts(reload)
    \/ \E t \in DOMAIN sup.threads : ThreadTop(t)
    \/ \E t \in DOMAIN sup.threads, ok \in BOOLEAN : ThreadCycle(t, ok)
    \/ \E t \in DOMAIN sup.threads : ThreadWait(t)
    \/ \E t \in DOMAIN sup.threads : ThreadRetry(t)

SpecReload == InitMain /\ [][NextReload]_vars

\* C26: at any time at most one worker thread is in a sync cycle for a
\* given account id, also after the account was removed and added again.
C26_OneWorkerPerAccount ==
    \A t, u \in DOMAIN sup.threads :
        (/\ sup.threads[t].account = sup.threads[u].account
         /\ ThreadPc(sup, t) = "cycle"
         /\ ThreadPc(sup, u) = "cycle") => t = u

\* ------------------------------------------------------------------------
\* DeleteAccount over D-Bus next to the running worker of the account.
\* sup.reload_q counts the reload requests (notify_account_reload) the main
\* loop has not yet taken; the worker is the thread of wk, with its cycle
\* taken folder by folder.
\* ------------------------------------------------------------------------
\* delete_account: delete_account_data under the Store mutex, then the
\* account's configuration, then notify_account_reload; false as soon as
\* one of them fails.  One call per run, for the account whose worker the
\* initial reload has started.
DeleteAccountCall(fail_at) ==
    /\ wk.pc # "off"
    /\ sup.reload_q = 0
    /\ sup.reloads = 0
    /\ \E r \in {DeleteAccountData(db, AccountId, fail_at)} :
          /\ db' = r.db
          /\ sup' = [sup EXCEPT !.reload_q = IF r.ok THEN 1 ELSE 0]
          /\ last' = [op |-> "delete_account", ok |-> r.ok,
                      pc |-> wk.pc, left |-> Len(todo)]
    /\ UNCHANGED <<srv, caps, todo, cyc, budget, wk, disk, mx>>

\* the main loop takes the request: reload_accounts finds the account gone
\* from the configuration and stops its worker
ProcessReload ==
    /\ sup.reload_q > 0
    /\ sup' = [sup EXCEPT !.reload_q = @ - 1, !.reloads = @ + 1]
    /\ wk' = IF wk.handle
             THEN [wk EXCEPT !.shutdown_q = @ + 1, !.handle = FALSE]
             ELSE wk
    /\ last' = [op |-> "reload", ok |-> TRUE, accounts |-> {},
                existing |-> IF wk.handle THEN {AccountId} ELSE {}]
    /\ UNCHANGED <<srv, caps, db, todo, cyc, budget, disk, mx>>

InitDelete ==
    /\ InitCommon
    /\ caps = [uidnext |-> TRUE, idle |-> TRUE, move |-> TRUE]
    /\ budget = 1

\* the steps of the worker thread
WorkerOfAccount ==
    \/ LoopTop
    \/ \E ok \in BOOLEAN : WorkerConnect(ok)
    \/ FolderPass(IoAllOk)
    \/ FoldersDone
    \/ \E outcome \in {"MailboxChanged", "TimedOut", "WaitErr", "IdleErr"} :
          IdleTurn(outcome)
    \/ RetryTurn

NextDelete ==
    \/ SpawnWorker
    \/ Deliver("INBOX", M1, FALSE)
    \/ \E fail_at \in {0, 8} : DeleteAccountCall(fail_at)
    \/ ProcessReload
    \/ WorkerOfAccount

\* the thread of the worker and the main loop keep running
SpecDelete ==
    /\ InitDelete
    /\ [][NextDelete]_vars
    /\ WF_vars(WorkerOfAccount)
    /\ WF_vars(ProcessReload)

\* C27: after DeleteAccount has returned true and the reload it asked for
\* has been processed, the Store eventually holds, and from then on keeps
\* holding, no folder, message, thread or file row of the account.
C27_PurgedForGood ==
    (sup.reloads > 0) ~>
        [](RowsOfAccount(db, AccountId) = RowsOfAccount(EmptyDb, AccountId))

\* ------------------------------------------------------------------------
\* Move-to-trash command by command, on servers with and without MOVE
\* ------------------------------------------------------------------------
InitMove ==
    /\ InitCommon
    /\ caps \in {[uidnext |-> TRUE, idle |-> TRUE, move |-> m] : m \in BOOLEAN}
    /\ budget = MaxEvents

NextMove ==
    \/ \E p \in Paths : Deliver(p, M1, FALSE)
    \/ CycleStart
    \/ Pass(IoAllOk)
    \/ \E id \in DOMAIN db.message, io \in ActionOutcomes,
          fail \in {None, "UID MOVE", "UID COPY", "UID STORE", "EXPUNGE"} :
          TrashMoving(id, io, fail)

SpecMove == InitMove /\ [][NextMove]_vars

\* the id is in the failed list of the result
ReportedFailed(result, id) ==
    \E i \in DOMAIN result.failed : result.failed[i].message_id = id

\* C28: a message that is not in the trash folder is moved with one UID MOVE
\* when the server advertises MOVE, else with UID COPY, UID STORE +FLAGS
\* (\Deleted), EXPUNGE in that order, each sent only if the one before
\* succeeded; its Message row, body and File rows are deleted only when the
\* whole server operation succeeded, and otherwise every row stays and the
\* id is reported failed.  A message in the trash folder is reported
\* succeeded with no command sent.
C28_MoveProtocol ==
    [][last'.op = "trash" =>
        LET id == last'.ids[1]
            path == db.folder[db.message[id].folder_id].path
            full == IF caps.move THEN <<"UID MOVE">>
                    ELSE <<"UID COPY", "UID STORE", "EXPUNGE">>
            failing == IF path \in last'.io.store_err THEN full[1] ELSE last'.fail
            stop == {i \in DOMAIN full : full[i] = failing}
            reached == last'.io.connect /\ path \notin last'.io.select_err
        IN IF path = "Trash"
           THEN /\ last'.cmds = <<>>
                /\ last'.result = [succeeded |-> <<id>>, failed |-> <<>>]
                /\ db' = db /\ srv' = srv
           ELSE IF ~reached
           THEN /\ last'.cmds = <<>>
                /\ last'.result.succeeded = <<>>
                /\ ReportedFailed(last'.result, id)
                /\ db' = db /\ srv' = srv
           ELSE IF stop # {}
           THEN /\ last'.cmds = SubSeq(full, 1, CHOOSE i \in stop : TRUE)
                /\ last'.result.succeeded = <<>>
                /\ ReportedFailed(last'.result, id)
                /\ db' = db
           ELSE /\ last'.cmds = full
                /\ last'.result = [succeeded |-> <<id>>, failed |-> <<>>]
                /\ id \notin DOMAIN db'.message
                /\ id \notin DOMAIN db'.message_body
                /\ \A f \in DOMAIN db'.file : db'.file[f].message_id # id
                /\ \A m \in srv'[path].msgs : m.uid # db.message[id].remote_uid
                /\ Cardinality(srv'["Trash"].msgs) = Cardinality(srv["Trash"].msgs) + 1]_vars

\* a message with a body and an attachment was moved on a server without
\* MOVE by the three commands
C28_Witness ==
    /\ last.op = "trash"
    /\ ~caps.move
    /\ last.cmds = <<"UID COPY", "UID STORE", "EXPUNGE">>
    /\ last.moved # {}
    /\ last.result.succeeded = last.ids
    /\ last.ids[1] \notin DOMAIN db.message

\* ------------------------------------------------------------------------
\* Thread counts against the Message rows (checked under SpecAct)
\* ------------------------------------------------------------------------
\* the Message rows of a thread
RowsOfThread(thread_id) ==
    {id \in DOMAIN db.message : db.message[id].thread_id = thread_id}

\* C29: after any sequence of sync passes, flag actions and move-to-trash
\* actions, the unread_count (starred_count) of each Thread is the number of
\* its Message rows that are unread (starred).
C29_CountsMatchRows ==
    \A t \in DOMAIN db.thread :
        /\ db.thread[t].unread_count =
              Cardinality({id \in RowsOfThread(t) : db.message[id].unread})
        /\ db.thread[t].starred_count =
              Cardinality({id \in RowsOfThread(t) : db.message[id].starred})

\* ------------------------------------------------------------------------
\* The filter of the incremental pass (checked under Spec)
\* ------------------------------------------------------------------------
\* the rows of folder_id with a UID below n, by UID
RowsBelow(d, folder_id, n) ==
    {d.message[id] : id \in {x \in DOMAIN d.message :
                                /\ d.message[x].folder_id = folder_id
                                /\ d.message[x].remote_uid < n}}

\* C30: an incremental pass processes no fetch response with a UID below
\* the stored uid_next: it creates no Message row with such a UID and
\* changes the flags of none, also when the server answers UID FETCH N:*
\* with the last existing message.
C30_IncrementalSkipsOld ==
    [][(last'.op = "pass" /\ last'.mode = "Incremental") =>
        RowsBelow(db', last'.folder.id, last'.stored.uid_next)
            \subseteq RowsBelow(db, last'.folder.id, last'.stored.uid_next)]_vars

\* an incremental pass over a mailbox whose messages all lie below the
\* stored uid_next, so that N:* is answered with the last of them, and
\* whose flags differ from those of the row
C30_Witness ==
    /\ last.op = "pass"
    /\ last.mode = "Incremental"
    /\ last.ok
    /\ last.io.fetch
    /\ srv[last.folder.path].msgs # {}
    /\ \A m \in srv[last.folder.path].msgs : m.uid < last.stored.uid_next
    /\ \E m \in srv[last.folder.path].msgs :
          /\ \A x \in srv[last.folder.path].msgs : x.uid <= m.uid
          /\ \E r \in RowsBelow(db, last.folder.id, last.stored.uid_next) :
                /\ r.remote_uid = m.uid
                /\ r.unread = m.seen

\* ------------------------------------------------------------------------
\* An incremental pass whose UID FETCH fails or brings nothing new
\* (checked under Spec)
\* ------------------------------------------------------------------------
\* the UIDs of the rows of folder_id
UidsOfRows(d, folder_id) ==
    {d.message[id].remote_uid :
        id \in {x \in DOMAIN d.message : d.message[x].folder_id = folder_id}}

\* the UIDs on the server in the folder of the last pass
UidsOnServer(path) == {m.uid : m \in srv[path].msgs}

\* C31: if the UID FETCH of an incremental pass returns an error or no
\* message at or above the stored uid_next, the pass succeeds with zero
\* new messages, creates no row (no fall back to a Full fetch), still
\* removes the rows of messages gone from the server and stores the cursor
\* that SELECT returned.
C31_EmptyIncremental ==
    [][(/\ last'.op = "pass"
        /\ last'.mode = "Incremental"
        /\ srv[last'.folder.path].msgs # {}
        /\ \/ ~last'.io.fetch
           \/ \A m \in srv[last'.folder.path].msgs : m.uid < last'.stored.uid_next)
       => /\ last'.ok
          /\ last'.new = 0
          /\ last'.flag_updates = 0
          /\ DOMAIN db'.message \subseteq DOMAIN db.message
          /\ last'.io.search =>
                /\ UidsOfRows(db', last'.folder.id)
                     = UidsOfRows(db, last'.folder.id)
                         \cap UidsOnServer(last'.folder.path)
                /\ last'.deleted > 0 <=>
                     UidsOfRows(db, last'.folder.id)
                        \ UidsOnServer(last'.folder.path) # {}
          /\ db'.folder[last'.folder.id].uid_next
                = SelectMailbox(srv[last'.folder.path]).uid_next
          /\ db'.folder[last'.folder.id].uid_validity
                = SelectMailbox(srv[last'.folder.path]).uid_validity]_vars

\* an incremental pass whose UID FETCH failed while the server held a
\* message at or above the stored uid_next: the message has no row, the
\* rows of the folder passed reconciliation and the cursor moved on
C31_Witness ==
    /\ last.op = "pass"
    /\ last.mode = "Incremental"
    /\ ~last.io.fetch
    /\ last.io.search
    /\ last.ok
    /\ UidsOfRows(db, last.folder.id) # {}
    /\ \E m \in srv[last.folder.path].msgs :
          /\ m.uid >= last.stored.uid_next
          /\ m.uid \notin UidsOfRows(db, last.folder.id)
    /\ db.folder[last.folder.id].uid_next > last.stored.uid_next

\* ------------------------------------------------------------------------
\* The message-changed signal of a pass (checked under Spec)
\* ------------------------------------------------------------------------
\* the Message rows of folder_id
RowsOfFolder(d, folder_id) ==
    {d.message[id] : id \in {x \in DOMAIN d.message :
                                d.message[x].folder_id = folder_id}}

\* the rows the fetch and reconciliation steps of the pass start from:
\* none after the clearing of a UIDVALIDITY change
RowsAtFetch(d, folder_id, cleared) ==
    IF cleared THEN {} ELSE RowsOfFolder(d, folder_id)

\* C32: a pass emits the message-changed signal iff new + deleted +
\* flag_updates > 0, the three being the rows the pass created, the rows
\* its reconciliation removed and the rows whose flags it rewrote; a pass
\* that fails emits none; the first sync of an empty mailbox stores the
\* cursor from SELECT, creates no Message row and emits no signal.
C32_SignalIffChanges ==
    [][last'.op = "pass" =>
        LET before == RowsAtFetch(db, last'.folder.id, last'.cleared)
            after == RowsOfFolder(db', last'.folder.id)
            ids(rows) == {r.id : r \in rows}
            mb == srv[last'.folder.path]
        IN /\ last'.notified <=>
                 last'.new + last'.deleted + last'.flag_updates > 0
           /\ ~last'.ok => ~last'.notified
           /\ last'.ok =>
                 /\ last'.new = Cardinality(ids(after) \ ids(before))
                 /\ last'.deleted = Cardinality(ids(before) \ ids(after))
                 /\ last'.flag_updates
                      = Cardinality(ids(after \ before) \cap ids(before))
           /\ (last'.io.select /\ mb.msgs = {}
                 /\ last'.stored.uid_validity = NoneNum) =>
                 /\ db'.folder[last'.folder.id].uid_validity
                      = SelectMailbox(mb).uid_validity
                 /\ db'.folder[last'.folder.id].uid_next
                      = SelectMailbox(mb).uid_next
                 /\ after = {}
                 /\ ~last'.notified]_vars

\* a pass that emitted the signal for a flag update alone
C32_Witness ==
    /\ last.op = "pass"
    /\ last.ok
    /\ last.notified
    /\ last.new = 0
    /\ last.deleted = 0
    /\ last.flag_updates > 0

\* the first sync of an empty mailbox: cursor stored, no row, no signal
C32_WitnessEmpty ==
    /\ last.op = "pass"
    /\ last.ok
    /\ last.stored.uid_validity = NoneNum
    /\ srv[last.folder.path].msgs = {}
    /\ db.folder[last.folder.id].uid_validity # NoneNum
    /\ ~last.notified

\* ------------------------------------------------------------------------
\* The message-changed signal of a user action (checked under SpecAct)
\* ------------------------------------------------------------------------
\* C33: MarkAsRead, MarkAsUnread, SetFlagged and MoveToTrash emit the
\* message-changed signal exactly when at least one id succeeded; a call
\* in which every id failed, or a call with an empty id list, emits none.
C33_SignalIffSuccess ==
    last.op \in {"flag", "trash"} =>
        /\ last.notified <=> \E id \in SeqToSet(last.ids) :
                                 id \in SeqToSet(last.result.succeeded)
        /\ (\A id \in SeqToSet(last.ids) : ReportedFailed(last.result, id))
               => ~last.notified
        /\ last.ids = <<>> => ~last.notified

\* a call of two ids, in different folders, of which one failed and one
\* succeeded: the signal is emitted
C33_Witness ==
    /\ last.op \in {"flag", "trash"}
    /\ last.notified
    /\ last.result.failed # <<>>
    /\ last.result.succeeded # <<>>

\* a call in which every id failed, and a call without ids: no signal
C33_WitnessAllFailed ==
    /\ last.op \in {"flag", "trash"}
    /\ last.ids # <<>>
    /\ \A id \in SeqToSet(last.ids) : ReportedFailed(last.result, id)
    /\ ~last.notified

C33_WitnessNoIds ==
    /\ last.op \in {"flag", "trash"}
    /\ last.ids = <<>>
    /\ ~last.notified

\* ------------------------------------------------------------------------
\* The order of the passes of one cycle (checked under SpecStop)
\* ------------------------------------------------------------------------
\* the paths of a sequence of folders
PathsOf(folders) == [i \in DOMAIN folders |-> folders[i].path]

\* C34: within one cycle the INBOX pass runs before the pass of any other
\* folder, every listed folder is attempted exactly once, and a failed
\* pass neither prevents the passes of the folders after it nor fails the
\* cycle: the passes of a cycle are those of INBOX and then of the other
\* listed folders, each pass takes the next folder whether it succeeds or
\* not, and the worker leaves the cycle only after the last pass, and not
\* for the retry wait of a failed cycle.
C34_PassOrder ==
    [][/\ last'.op = "start" =>
             /\ PathsOf(todo')[1] = "INBOX"
             /\ \A p \in Paths :
                   Cardinality({i \in DOMAIN todo' : todo'[i].path = p}) = 1
             /\ Len(todo') = Len(ListedPaths)
       /\ (last'.op = "pass" /\ wk.pc = "folders") =>
             /\ todo # <<>>
             /\ last'.folder = Head(todo)
             /\ todo' = Tail(todo)
             /\ wk'.pc = "folders"
       /\ (wk.pc = "folders" /\ wk'.pc # "folders") =>
             /\ todo = <<>>
             /\ wk'.pc \notin {"retry", "exited"}]_vars

\* the cycle is over after a failed INBOX pass and a pass of the other
\* folder: nothing else used up the run's one event
C34_Witness ==
    /\ wk.pc \in {"idle", "poll"}
    /\ last.op = "worker"
    /\ todo = <<>>
    /\ budget = 0
    /\ ~cyc.clean
    /\ \A p \in Paths : srv[p].msgs = {}
    /\ \A f \in DOMAIN db.folder :
          db.folder[f].uid_next = NoneNum <=> db.folder[f].path = "INBOX"

\* ------------------------------------------------------------------------
\* The waits between the cycles of a worker (SpecWait): the worker thread
\* of an account whose server may list no INBOX and may lack IDLE
\* ------------------------------------------------------------------------
InitWait ==
    /\ srv \in {[p \in S |-> [uid_validity |-> 1, uid_next |-> 1, msgs |-> {}]] :
                  S \in {Paths, Paths \ {"INBOX"}}}
    /\ db = EmptyDb
    /\ todo = <<>>
    /\ cyc = [running |-> FALSE, clean |-> FALSE, marked |-> {},
            trashed |-> {}, due |-> {}]
    /\ last = [op |-> "init"]
    /\ wk = InitWorkerThread
    /\ sup = InitSupervisor
    /\ mx = InitMutex
    /\ disk = InitDisk
    /\ caps \in {[uidnext |-> TRUE, idle |-> i, move |-> TRUE] : i \in BOOLEAN}
    /\ budget = 1

NextWait ==
    \/ SpawnWorker
    \/ SignalShutdown
    \/ TriggerSync
    \/ LoopTop
    \/ \E ok \in BOOLEAN : WorkerConnect(ok)
    \/ \E io \in IoOutcomes : FolderPass(io)
    \/ FoldersDone
    \/ \E outcome \in {"MailboxChanged", "TimedOut", "WaitErr", "IdleErr"} :
          IdleTurn(outcome)
    \/ PollTurn
    \/ RetryTurn

SpecWait == InitWait /\ [][NextWait]_vars

\* the step took a shutdown signal or a trigger out of its channel
TookSignal ==
    \/ wk'.shutdown_q < wk.shutdown_q
    \/ wk'.trigger_q < wk.trigger_q

\* C35: between the end of one cycle and the start of the next the worker
\* passes through a wait: the thread comes back to the head of its loop
\* only out of IDLE, out of the poll wait or out of the retry wait, and out
\* of the poll wait and the retry wait only after the whole interval unless
\* it took a trigger or a shutdown signal.
C35_WaitBetweenCycles ==
    [][(wk'.pc = "top" /\ wk.pc \notin {"top", "off"}) =>
          /\ wk.pc \in {"idle", "poll", "retry"}
          /\ wk.pc = "poll" => (wk.waited >= POLL_INTERVAL_SECS \/ TookSignal)
          /\ wk.pc = "retry" => wk.waited >= RETRY_WAIT_SECS]_vars

\* ------------------------------------------------------------------------
\* The wait after a failed cycle (checked under SpecWorkerFair)
\* ------------------------------------------------------------------------
\* C36: after a failed cycle the worker takes RETRY_WAIT_SECS one-second
\* naps before anything else: during them it starts no cycle, whatever
\* triggers arrive, and leaves the wait early only by terminating on a
\* shutdown signal; after the last nap it is back at the head of its loop,
\* and a new cycle starts unless the thread ends.
C36_RetryWait ==
    /\ [][(wk.pc # "retry" /\ wk'.pc = "retry") => wk'.waited = 0]_vars
    /\ [][(wk.pc = "retry" /\ WorkerMoves) =>
            \/ /\ wk.waited < RETRY_WAIT_SECS
               /\ wk.shutdown_q = 0
               /\ wk'.pc = "retry"
               /\ wk'.waited = wk.waited + 1
            \/ /\ wk.waited < RETRY_WAIT_SECS
               /\ wk.shutdown_q > 0
               /\ wk'.pc = "exited"
            \/ /\ wk.waited = RETRY_WAIT_SECS
               /\ wk'.pc = "top"]_vars
    /\ (wk.pc = "retry") ~> (last.op = "cycle_start" \/ wk.pc = "exited")

\* the last nap of the wait is over with a trigger pending all along
C36_Witness ==
    /\ wk.pc = "retry"
    /\ wk.waited = RETRY_WAIT_SECS
    /\ wk.trigger_q > 0
    /\ wk.shutdown_q = 0

SpamPaths == {"INBOX", "Trash", "Spam", "Junk"}

\* a parsed attachment: inline or not, with its data or without, with a
\* Content-ID or without
ParsedAttachments ==
    {[is_inline |-> i, has_data |-> h, content_id |-> c] :
        i \in BOOLEAN, h \in BOOLEAN, c \in {None, "cid"}}

\* the attachment lists of one message
AttachmentLists ==
    {<<>>} \cup {<<a>> : a \in ParsedAttachments}
           \cup {<<a, b>> : a \in ParsedAttachments, b \in ParsedAttachments}

InitSpam ==
    /\ InitCommon
    /\ caps = [uidnext |-> TRUE, idle |-> TRUE, move |-> TRUE]
    /\ budget = MaxFiles

\* process_message from "let is_spam_folder" to the call of
\* process_attachments, for a new message of the folder at path
ProcessAttachmentsCall(path, parsed_attachments) ==
    /\ budget > 0
    /\ budget' = budget - 1
    /\ \E folder \in {NewFolder(FolderId(AccountId, path), AccountId, path)} :
       \E message_id \in {MessageId(AccountId, folder.id, MaxFiles - budget + 1)} :
       \E r \in {ProcessAttachments(AccountId,
                     [db |-> db, written |-> <<>>, cid_replacements |-> <<>>],
                     message_id, parsed_attachments, folder.role = "spam")} :
          /\ db' = r.db
          /\ last' = [op |-> "attachments", folder |-> folder,
                      message_id |-> message_id,
                      parsed |-> parsed_attachments,
                      before |-> DOMAIN db.file,
                      written |-> r.written,
                      cid_replacements |-> r.cid_replacements]
    /\ UNCHANGED <<srv, caps, todo, cyc, wk, sup, disk, mx>>

NextSpam ==
    \E path \in SpamPaths, l \in AttachmentLists : ProcessAttachmentsCall(path, l)

SpecSpam == InitSpam /\ [][NextSpam]_vars

\* the File rows the last call stored, in the order of the attachments
StoredFiles ==
    LET ids == SortedSeq(DOMAIN db.file \ last.before)
    IN [i \in DOMAIN ids |-> db.file[ids[i]]]

InitBatch ==
    /\ \E n \in 0..(MAX_MESSAGES_PER_BATCH + MaxOver) :
          srv = [p \in Paths |->
                   IF p = "INBOX"
                   THEN [uid_validity |-> 1, uid_next |-> n + 1,
                         msgs |-> BulkMessages(1, n, M3)]
                   ELSE [uid_validity |-> 1, uid_next |-> 1, msgs |-> {}]]
    /\ db = EmptyDb
    /\ todo = <<>>
    /\ cyc = [running |-> FALSE, clean |-> FALSE, marked |-> {},
            trashed |-> {}, due |-> {}]
    /\ last = [op |-> "init"]
    /\ wk = InitWorkerThread
    /\ sup = InitSupervisor
    /\ mx = InitMutex
    /\ disk = InitDisk
    /\ caps = [uidnext |-> TRUE, idle |-> TRUE, move |-> TRUE]
    /\ budget = 1

\* sync_folder_full up to the FETCH: SELECT, the start of the range, the
\* responses to FETCH start:*
FullFetch ==
    /\ budget > 0
    /\ budget' = budget - 1
    /\ \E exists \in {SelectMailbox(srv["INBOX"]).exists} :
       \E start \in {FullFetchStart(exists)} :
          last' = [op |-> "full_fetch", exists |-> exists, start |-> start,
                   messages |-> [i \in DOMAIN FetchRange(srv["INBOX"], start) |->
                                    FetchRange(srv["INBOX"], start)[i].uid]]
    /\ UNCHANGED <<srv, caps, db, todo, cyc, wk, sup, disk, mx>>

NextBatch == FullFetch

SpecBatch == InitBatch /\ [][NextBatch]_vars

\* C39: the start of the range of a full fetch is max(1, exists -
\* MAX_BATCH + 1) with MAX_BATCH = 100: it is at least 1, it is 1 for every
\* exists <= 100 (nothing wraps below zero), and start:* brings min(exists,
\* 100) messages, the last ones of the mailbox.
C39_FullFetchStart ==
    last.op = "full_fetch" =>
        /\ last.start >= 1
        /\ last.start = Max(1, last.exists - 100 + 1)
        /\ last.exists <= 100 => last.start = 1
        /\ Len(last.messages) = Min(last.exists, 100)
        /\ \A i \in DOMAIN last.messages :
              last.messages[i] = last.exists - Len(last.messages) + i

\* a full fetch of a mailbox of more than one batch, and of less
C39_Witness ==
    /\ last.op = "full_fetch"
    /\ last.exists > 100
    /\ last.start = 2

C39_WitnessSmall ==
    /\ last.op = "full_fetch"
    /\ last.exists = 99
    /\ Len(last.messages) = 99

\* ------------------------------------------------------------------------
\* The thread references (SpecRefs): messages with every combination of a
\* Message-ID and up to two In-Reply-To ids arrive in any order
\* ------------------------------------------------------------------------
HeaderIds == {"a", "b", "c"}

\* the envelopes of the messages: with or without Message-ID, replying to
\* none, one or two ids
Envelopes ==
    {[message_id |-> m, in_reply_to |-> r, body |-> "", attachments |-> <<>>] :
        m \in HeaderIds \cup {None},
        r \in {<<>>} \cup {<<x>> : x \in HeaderIds}
                     \cup {<<x, y>> : x \in HeaderIds, y \in HeaderIds}}

NextRefs ==
    \E p \in Paths, e \in Envelopes : Ingest(p, e, FALSE, FALSE)

SpecRefs == InitThread /\ [][NextRefs]_vars

\* the threads that thread_reference gives for (account_id, header_message_id)
ThreadsOfReference(account_id, header_message_id) ==
    {r.thread_id : r \in {x \in db.thread_reference :
                             /\ x.account_id = account_id
                             /\ x.header_message_id = header_message_id}}

\* C40: thread_reference maps each (account_id, header_message_id) to at
\* most one thread_id, so the lookup used for threading has one answer.
C40_OneThreadPerReference ==
    \A x \in db.thread_reference :
        ThreadsOfReference(x.account_id, x.header_message_id) = {x.thread_id}

\* a message that replies to two messages of two different threads has
\* been threaded
C40_Witness ==
    /\ last.op = "ingest"
    /\ last.result = "New"
    /\ Len(last.fetch.envelope.in_reply_to) = 2
    /\ last.fetch.envelope.message_id # None
    /\ ThreadsOfReference(AccountId, last.fetch.envelope.in_reply_to[1])
         # ThreadsOfReference(AccountId, last.fetch.envelope.in_reply_to[2])
    /\ ThreadsOfReference(AccountId, last.fetch.envelope.in_reply_to[1]) # {}
    /\ ThreadsOfReference(AccountId, last.fetch.envelope.in_reply_to[2]) # {}

====
